---- MODULE Spec2Model ----
(***************************************************************************)
(* Verification model of shirt.sh: the retry engine (lib/utils/retry) and  *)
(* the verify -> act -> settle payment coordinator of the fixed-price      *)
(* routes POST /api/shirts and POST /api/shirts/from-image, the            *)
(* dynamically priced route POST /api/shirts/products/[productId]/order    *)
(* with its GET, and the listing route POST /api/shirts/products.          *)
(*                                                                         *)
(* Error messages are modelled by the set of marker substrings they        *)
(* contain ("timeout", "500", ...): every predicate of the program reads a *)
(* message only through String.includes on those markers.                  *)
(* Durations are exact fractions <<numerator, denominator>> of a           *)
(* millisecond.                                                            *)
(***************************************************************************)
EXTENDS Integers, Sequences, FiniteSets, TLC

VARIABLES
  route,        \* which entry point runs: "shirts", "from-image", "order",
                \* "withRetry"
  cfg,          \* PaymentConfig handed to verifyPayment: [price, network]
  header,       \* value of the request's payment header (X-PAYMENT, or
                \* X-Payment-Token on the order route)
  options,      \* Partial<RetryOptions> handed to withRetry by the direct caller
  body,         \* the request body
  idempotencyKey, \* value of the Idempotency-Key request header, or "null"
  faults,       \* values the awaited collaborators can throw in this run
  parked,       \* requests in flight whose handler is suspended at an await
  listing,      \* body of the request to POST /api/shirts/products
  store,        \* the product the fulfillment provider keeps
  pc,           \* position of the request handler
  atomic,       \* atomicAmountForAsset computed by verifyPayment
  reqs,         \* paymentRequirements built by verifyPayment
  selected,     \* selectedPaymentRequirements
  payment,      \* decodedPayment
  verification, \* what the facilitator's verify returned
  bodyStatus,   \* what reading and validating the JSON body gave
  stack,        \* active withRetry invocations, innermost last
  signal,       \* value being thrown up the await chain, if any
  calls,        \* number of calls of each external collaborator
  hist,         \* facts about the past of this request
  vendor,       \* products and orders the fulfillment provider returned
  settlement,   \* what settlePayment returned
  result,       \* how the side effect / withRetry promise settled
  response,     \* the HTTP response, once sent
  product,      \* what getPrintifyProduct returned (order route)
  metadata,     \* what extractProductMetadata returned (order route)
  splitPaymentTx \* whether transferMarginToCreator gave a transaction hash

vars == <<route, cfg, header, options, body, idempotencyKey, faults, parked,
          listing, store, pc, atomic, reqs,
          selected, payment, verification, bodyStatus, stack, signal, calls,
          hist, vendor, settlement, result, response, product, metadata,
          splitPaymentTx>>

inputVars == <<route, cfg, header, options, body, idempotencyKey, faults,
               parked, listing, store>>
orderVars == <<product, metadata, splitPaymentTx>>
engineVars == <<stack, signal, result, vendor>>
payVars == <<atomic, reqs, selected, payment, verification, bodyStatus,
             settlement, response>>

(***************************************************************************)
(* Bounds                                                                  *)
(***************************************************************************)
\* largest maxAttempts a direct caller of withRetry passes
MaxAttemptsBound == 3
\* Math.random() takes the values r / RandomSteps, r in 0 .. RandomSteps-1
RandomSteps == 2

(***************************************************************************)
(* Retry engine: lib/utils/retry                                           *)
(***************************************************************************)
\* Markers the predicates look for in error.message
Markers == {"timeout", "network", "ECONNRESET", "ENOTFOUND", "rate",
            "500", "502", "503", "504",
            "400", "401", "403", "404", "422", "429"}

\* Messages the collaborators fail with in this model
ErrorMessages == {{}, {"timeout"}, {"503"}, {"429"}, {"400"}, {"404", "500"}}

\* Values an awaited call can throw: Error instances and other values
ThrownValues == [isError : BOOLEAN, text : ErrorMessages]

\* the default predicate with a rate-limit check added
DefaultRetryOnWithRateLimit(message) ==
  IF "timeout" \in message THEN TRUE
  ELSE IF "network" \in message THEN TRUE
  ELSE IF "ECONNRESET" \in message THEN TRUE
  ELSE IF "ENOTFOUND" \in message THEN TRUE
  ELSE IF "500" \in message THEN TRUE
  ELSE IF "502" \in message THEN TRUE
  ELSE IF "503" \in message THEN TRUE
  ELSE IF "504" \in message THEN TRUE
  ELSE IF "429" \in message THEN TRUE
  ELSE FALSE

DefaultRetryOn(message) ==
  IF "timeout" \in message THEN TRUE
  ELSE IF "network" \in message THEN TRUE
  ELSE IF "ECONNRESET" \in message THEN TRUE
  ELSE IF "ENOTFOUND" \in message THEN TRUE
  ELSE IF "500" \in message THEN TRUE
  ELSE IF "502" \in message THEN TRUE
  ELSE IF "503" \in message THEN TRUE
  ELSE IF "504" \in message THEN TRUE
  ELSE FALSE

ImageGenerationRetryOn(message) ==
  IF "timeout" \in message THEN TRUE
  ELSE IF "network" \in message THEN TRUE
  ELSE IF "rate" \in message THEN TRUE
  ELSE IF "429" \in message THEN TRUE
  ELSE IF "500" \in message THEN TRUE
  ELSE IF "502" \in message THEN TRUE
  ELSE IF "503" \in message THEN TRUE
  ELSE IF "504" \in message THEN TRUE
  ELSE FALSE

PrintifyRetryOn(message) ==
  IF "timeout" \in message THEN TRUE
  ELSE IF "network" \in message THEN TRUE
  ELSE IF "ECONNRESET" \in message THEN TRUE
  ELSE IF "ENOTFOUND" \in message THEN TRUE
  ELSE IF "500" \in message THEN TRUE
  ELSE IF "502" \in message THEN TRUE
  ELSE IF "503" \in message THEN TRUE
  ELSE IF "504" \in message THEN TRUE
  ELSE IF "400" \in message THEN FALSE
  ELSE IF "401" \in message THEN FALSE
  ELSE IF "403" \in message THEN FALSE
  ELSE IF "404" \in message THEN FALSE
  ELSE IF "422" \in message THEN FALSE
  ELSE IF "429" \in message THEN TRUE
  ELSE FALSE

\* config.retryOn!(lastError): predicates are named, the caller-supplied
\* ones of the model are the constant predicates
retryOn(name, message) ==
  CASE name = "DEFAULT" -> DefaultRetryOn(message)
    [] name = "IMAGE_GENERATION" -> ImageGenerationRetryOn(message)
    [] name = "PRINTIFY_OPERATION" -> PrintifyRetryOn(message)
    [] name = "always" -> TRUE
    [] name = "never" -> FALSE

DEFAULT_RETRY_OPTIONS ==
  [maxAttempts |-> 3, initialDelay |-> 1000, maxDelay |-> 30000,
   backoffMultiplier |-> <<2, 1>>, jitter |-> TRUE, retryOn |-> "DEFAULT"]

RETRY_PRESETS ==
  [API_CALL |->
     [maxAttempts |-> 3, initialDelay |-> 500, maxDelay |-> 5000,
      backoffMultiplier |-> <<2, 1>>, jitter |-> TRUE],
   IMAGE_GENERATION |->
     [maxAttempts |-> 3, initialDelay |-> 2000, maxDelay |-> 30000,
      backoffMultiplier |-> <<2, 1>>, jitter |-> TRUE,
      retryOn |-> "IMAGE_GENERATION"],
   PRINTIFY_OPERATION |->
     [maxAttempts |-> 4, initialDelay |-> 1500, maxDelay |-> 20000,
      backoffMultiplier |-> <<9, 5>>, jitter |-> TRUE,
      retryOn |-> "PRINTIFY_OPERATION"],
   WORKFLOW |->
     [maxAttempts |-> 2, initialDelay |-> 5000, maxDelay |-> 60000,
      backoffMultiplier |-> <<2, 1>>, jitter |-> TRUE]]

\* const config = { ...DEFAULT_RETRY_OPTIONS, ...options }
MergeOptions(opts) ==
  [k \in DOMAIN DEFAULT_RETRY_OPTIONS |->
     IF k \in DOMAIN opts THEN opts[k] ELSE DEFAULT_RETRY_OPTIONS[k]]

RECURSIVE Pow(_, _)
Pow(b, e) == IF e = 0 THEN 1 ELSE b * Pow(b, e - 1)

\* fractions <<n, d>> with d > 0
FracLeq(a, b) == a[1] * b[2] <= b[1] * a[2]
FracEq(a, b) == a[1] * b[2] = b[1] * a[2]
FracMin(a, b) == IF FracLeq(a, b) THEN a ELSE b

\* calculateDelay raising the multiplier to attempt instead of attempt - 1
calculateDelayOneStepAhead(attempt, opts, rnd) ==
  LET exponentialDelay ==
        <<opts.initialDelay * Pow(opts.backoffMultiplier[1], attempt),
          Pow(opts.backoffMultiplier[2], attempt)>>
      delay == FracMin(exponentialDelay, <<opts.maxDelay, 1>>)
  IN IF opts.jitter
       THEN <<delay[1] * (4 * RandomSteps + 2 * rnd - RandomSteps),
              delay[2] * 4 * RandomSteps>>
       ELSE delay

\* calculateDelay with a jitter range of delay * 0.5 instead of delay * 0.25
calculateDelayWideJitter(attempt, opts, rnd) ==
  LET exponentialDelay ==
        <<opts.initialDelay * Pow(opts.backoffMultiplier[1], attempt - 1),
          Pow(opts.backoffMultiplier[2], attempt - 1)>>
      delay == FracMin(exponentialDelay, <<opts.maxDelay, 1>>)
  IN IF opts.jitter
       THEN <<delay[1] * (2 * RandomSteps + 2 * rnd - RandomSteps),
              delay[2] * 2 * RandomSteps>>
       ELSE delay

\* calculateDelay(attempt, options); rnd is the value Math.random() returned,
\* rnd / RandomSteps
calculateDelay(attempt, opts, rnd) ==
  LET exponentialDelay ==
        <<opts.initialDelay * Pow(opts.backoffMultiplier[1], attempt - 1),
          Pow(opts.backoffMultiplier[2], attempt - 1)>>
      delay == FracMin(exponentialDelay, <<opts.maxDelay, 1>>)
  IN IF opts.jitter
       THEN \* delay + (random - 0.5) * 2 * (delay * 0.25)
            <<delay[1] * (4 * RandomSteps + 2 * rnd - RandomSteps),
              delay[2] * 4 * RandomSteps>>
       ELSE delay

\* lastError = error instanceof Error ? error : new Error(String(error))
NormalizeError(thrown) ==
  [thrown EXCEPT !.isError = TRUE]

\* the catch block giving up one attempt early
CatchDecisionOffByOne(attempt, config, lastError) ==
  IF ~retryOn(config.retryOn, lastError.text) THEN "throw"
  ELSE IF attempt + 1 >= config.maxAttempts THEN "throw"
  ELSE "sleep"

\* the catch block giving up only once attempt exceeds maxAttempts
CatchDecisionLateBound(attempt, config, lastError) ==
  IF ~retryOn(config.retryOn, lastError.text) THEN "throw"
  ELSE IF attempt > config.maxAttempts THEN "throw"
  ELSE "sleep"

\* the catch block without the retryOn check
CatchDecisionIgnoringPredicate(attempt, config, lastError) ==
  IF attempt = config.maxAttempts THEN "throw"
  ELSE "sleep"

\* the catch block rethrowing every error at once
CatchDecisionNeverRetries(attempt, config, lastError) == "throw"

\* The catch block of withRetry after lastError is set: "throw" or "sleep"
CatchDecision(attempt, config, lastError) ==
  IF ~retryOn(config.retryOn, lastError.text) THEN "throw"
  ELSE IF attempt = config.maxAttempts THEN "throw"
  ELSE "sleep"

(***************************************************************************)
(* Call structure: which withRetry invocations exist and what their        *)
(* operations do                                                           *)
(***************************************************************************)
\* call sites where createDirectPrintifyOrder passes the vendor preset
OptionsOfVendorPresetEverywhere(w) ==
  CASE w = "workflow" -> RETRY_PRESETS.WORKFLOW
    [] w = "direct" -> RETRY_PRESETS.PRINTIFY_OPERATION
    [] w = "variant" -> RETRY_PRESETS.PRINTIFY_OPERATION
    [] w = "order" -> RETRY_PRESETS.PRINTIFY_OPERATION
    [] w = "fn" -> options

\* Options each withRetry call site passes
OptionsOf(w) ==
  CASE w = "workflow" -> RETRY_PRESETS.WORKFLOW
    [] w = "direct" -> RETRY_PRESETS.WORKFLOW
    [] w = "variant" -> RETRY_PRESETS.PRINTIFY_OPERATION
    [] w = "order" -> RETRY_PRESETS.PRINTIFY_OPERATION
    [] w = "fn" -> options

ConfigOf(w) == MergeOptions(OptionsOf(w))

\* operations in which createDirectPrintifyOrder reads the order back after
\* it was submitted
BodyWithOrderLookup(w) ==
  CASE w = "workflow" -> <<"generateShirtDesign", "createDirectPrintifyOrder">>
    [] w = "direct" -> <<"uploads.uploadImage", "products.create",
                         "products.publishOne", "getVariantIdByOptions",
                         "createPrintifyOrder", "orders.getOne">>
    [] w = "variant" -> <<"catalog.getBlueprintVariants">>
    [] w = "order" -> <<"orders.submit">>
    [] w = "fn" -> <<"fn">>

\* The awaited steps of the operation each call site wraps, in program order
Body(w) ==
  CASE w = "workflow" -> <<"generateShirtDesign", "createDirectPrintifyOrder">>
    [] w = "direct" -> <<"uploads.uploadImage", "products.create",
                         "products.publishOne", "getVariantIdByOptions",
                         "createPrintifyOrder">>
    [] w = "variant" -> <<"catalog.getBlueprintVariants">>
    [] w = "order" -> <<"orders.submit">>
    [] w = "fn" -> <<"fn">>

\* Steps that are themselves withRetry call sites
Callee(step) ==
  CASE step = "createDirectPrintifyOrder" -> "direct"
    [] step = "getVariantIdByOptions" -> "variant"
    [] step = "createPrintifyOrder" -> "order"
    [] OTHER -> "none"

\* throw new Error(`Failed to ...: ${error instanceof Error ? error.message
\* : "Unknown error"}`) of lib/services/printify-product
Rewrap(thrown) ==
  [isError |-> TRUE, text |-> IF thrown.isError THEN thrown.text ELSE {}]

\* What a failing step raises into the enclosing withRetry, given what the
\* collaborator threw
Raised(step, thrown) ==
  CASE step = "uploads.uploadImage" -> Rewrap(Rewrap(thrown))
    [] step = "products.create" -> Rewrap(thrown)
    [] step = "products.publishOne" -> Rewrap(Rewrap(thrown))
    [] OTHER -> thrown

\* The fulfillment provider's record after a step returned a result
VendorAfter(step, v) ==
  CASE step = "products.create" -> [v EXCEPT !.products = @ + 1]
    [] step = "orders.submit" -> [v EXCEPT !.orders = @ + 1]
    [] OTHER -> v

NoRequirement == [scheme |-> "none", network |-> "none",
                  maxAmountRequired |-> 0]
NoPayment == [scheme |-> "none", network |-> "none"]
NoSignal == [kind |-> "none", isError |-> TRUE, text |-> {}, origin |-> 0]
NoResult == [kind |-> "pending", text |-> {}, origin |-> 0,
             productId |-> 0, orderId |-> 0]

Frame(w) == [w |-> w, attempt |-> 1, step |-> 1, sleeping |-> FALSE,
             delay |-> <<0, 1>>]

Top == stack[Len(stack)]
SetTop(f) == [stack EXCEPT ![Len(stack)] = f]
Pop == SubSeq(stack, 1, Len(stack) - 1)

Running ==
  /\ pc \in {"sideEffect", "withRetry", "createPrintifyOrder"}
  /\ stack # <<>>
  /\ ~Top.sleeping

\* withRetry is entered by an awaited step of the enclosing operation:
\* attempt = 1, first await of fn
Enter ==
  /\ Running
  /\ signal.kind = "none"
  /\ Top.step <= Len(Body(Top.w))
  /\ Callee(Body(Top.w)[Top.step]) # "none"
  /\ stack' = Append(stack, Frame(Callee(Body(Top.w)[Top.step])))
  /\ UNCHANGED <<inputVars, orderVars, payVars, pc, signal, calls, hist, vendor, result>>

\* An awaited collaborator call of the operation returns a usable result
StepReturns ==
  /\ Running
  /\ signal.kind = "none"
  /\ Top.step <= Len(Body(Top.w))
  /\ Callee(Body(Top.w)[Top.step]) = "none"
  /\ LET step == Body(Top.w)[Top.step] IN
       /\ stack' = SetTop([Top EXCEPT !.step = @ + 1])
       /\ vendor' = VendorAfter(step, vendor)
       /\ calls' = IF step = "orders.submit"
                     THEN [calls EXCEPT !.submit = @ + 1] ELSE calls
       /\ hist' = IF step = "fn"
                    THEN [hist EXCEPT !.outcomes =
                            Append(@, [ok |-> TRUE, isError |-> TRUE,
                                       text |-> {}])]
                    ELSE hist
  /\ UNCHANGED <<inputVars, orderVars, payVars, pc, signal, result>>

\* An awaited collaborator call of the operation throws, or returns a result
\* the operation rejects with an Error of its own ("Invalid response ...")
StepThrows ==
  /\ Running
  /\ signal.kind = "none"
  /\ Top.step <= Len(Body(Top.w))
  /\ Callee(Body(Top.w)[Top.step]) = "none"
  /\ \E thrown \in faults :
       LET step == Body(Top.w)[Top.step]
           raised == Raised(step, thrown)
       IN /\ signal' = [kind |-> "throw", isError |-> raised.isError,
                        text |-> raised.text, origin |-> Top.attempt]
          /\ calls' = IF step = "orders.submit"
                        THEN [calls EXCEPT !.submit = @ + 1] ELSE calls
          /\ hist' = IF step = "fn"
                       THEN [hist EXCEPT !.outcomes =
                               Append(@, [ok |-> FALSE,
                                          isError |-> thrown.isError,
                                          text |-> thrown.text])]
                       ELSE hist
  /\ UNCHANGED <<inputVars, orderVars, payVars, pc, stack, vendor, result>>

\* the loop without its return: a successful attempt short of maxAttempts is
\* followed by another attempt
ReturnWithoutLeavingLoop ==
  /\ Running
  /\ signal.kind = "none"
  /\ Top.step > Len(Body(Top.w))
  /\ stack' = IF Top.attempt < ConfigOf(Top.w).maxAttempts
                THEN SetTop([Top EXCEPT !.attempt = @ + 1, !.step = 1])
              ELSE IF Len(stack) = 1 THEN <<>>
              ELSE [Pop EXCEPT ![Len(stack) - 1].step = @ + 1]
  /\ result' = IF Len(stack) = 1 /\ Top.attempt >= ConfigOf(Top.w).maxAttempts
                 THEN [kind |-> "resolved", text |-> {},
                       origin |-> Top.attempt,
                       productId |-> vendor.products,
                       orderId |-> vendor.orders]
                 ELSE result
  /\ UNCHANGED <<inputVars, orderVars, payVars, pc, signal, calls, hist, vendor>>

\* return result: the operation ran to its end
Return ==
  /\ Running
  /\ signal.kind = "none"
  /\ Top.step > Len(Body(Top.w))
  /\ stack' = IF Len(stack) = 1 THEN <<>>
              ELSE [Pop EXCEPT ![Len(stack) - 1].step = @ + 1]
  /\ result' = IF Len(stack) = 1
                 THEN [kind |-> "resolved", text |-> {},
                       origin |-> Top.attempt,
                       productId |-> vendor.products,
                       orderId |-> vendor.orders]
                 ELSE result
  /\ UNCHANGED <<inputVars, orderVars, payVars, pc, signal, calls, hist, vendor>>

\* Which throw statement a withRetry invocation leaves through: the one
\* after the predicate refused the error, the one for attempt = maxAttempts,
\* or neither condition held
GiveUpReason(attempt, config, lastError) ==
  IF ~retryOn(config.retryOn, lastError.text) THEN "nonRetryable"
  ELSE IF attempt >= config.maxAttempts THEN "exhausted"
  ELSE "surfaced"

\* catch (error): non-retryable or last attempt -> throw lastError
CatchThrow ==
  /\ Running
  /\ signal.kind = "throw"
  /\ LET lastError == NormalizeError(signal) IN
       /\ CatchDecision(Top.attempt, ConfigOf(Top.w), lastError) = "throw"
       /\ hist' = [hist EXCEPT !.gaveUp =
                     @ \cup {GiveUpReason(Top.attempt, ConfigOf(Top.w),
                                          lastError)}]
       /\ stack' = Pop
       /\ signal' = IF Len(stack) = 1 THEN NoSignal ELSE lastError
       /\ result' = IF Len(stack) = 1
                      THEN [kind |-> "rejected", text |-> lastError.text,
                            origin |-> lastError.origin,
                            productId |-> 0, orderId |-> 0]
                      ELSE result
  /\ UNCHANGED <<inputVars, orderVars, payVars, pc, calls, vendor>>

\* catch (error): retryable and attempts left -> await sleep(delay)
CatchSleep ==
  /\ Running
  /\ signal.kind = "throw"
  /\ LET lastError == NormalizeError(signal) IN
       /\ CatchDecision(Top.attempt, ConfigOf(Top.w), lastError) = "sleep"
       /\ \E rnd \in 0 .. RandomSteps - 1 :
            stack' = SetTop([Top EXCEPT
                        !.sleeping = TRUE,
                        !.delay = calculateDelay(Top.attempt, ConfigOf(Top.w),
                                                 rnd)])
       /\ signal' = NoSignal
       /\ calls' = [calls EXCEPT !.sleep = @ + 1]
  /\ UNCHANGED <<inputVars, orderVars, payVars, pc, vendor, result, hist>>

\* a timer after which the loop runs fn again without counting the attempt
WakeWithoutCounting ==
  /\ Running
  /\ stack # <<>>
  /\ Top.sleeping
  /\ stack' = SetTop([Top EXCEPT !.sleeping = FALSE, !.delay = <<0, 1>>,
                                 !.step = 1])
  /\ UNCHANGED <<inputVars, orderVars, payVars, pc, signal, calls, hist, vendor, result>>

\* the timer fires: attempt++ and the loop body runs fn again
Wake ==
  /\ pc \in {"sideEffect", "withRetry", "createPrintifyOrder"}
  /\ stack # <<>>
  /\ Top.sleeping
  /\ stack' = SetTop([Top EXCEPT !.sleeping = FALSE, !.delay = <<0, 1>>,
                                 !.attempt = @ + 1, !.step = 1])
  /\ UNCHANGED <<inputVars, orderVars, payVars, pc, signal, calls, hist, vendor, result>>

(***************************************************************************)
(* withRetry called directly with an arbitrary policy and operation        *)
(***************************************************************************)
\* A JavaScript value read out of parsed JSON: a string (a sequence of
\* one-character strings), a number, an object, null, or undefined
Undefined == [kind |-> "undefined", str |-> <<>>, num |-> 0]
NoAtomic == [maxAmountRequired |-> 0, decimals |-> 0]
NoSettlement == [threw |-> FALSE, success |-> FALSE, error |-> "unsettled"]
NoVerification == [returned |-> FALSE, isValid |-> FALSE,
                   invalidReason |-> FALSE, payer |-> FALSE]
NoResponse == [status |-> 0, accepts |-> -1, error |-> "none",
               payer |-> FALSE, productId |-> 0, orderId |-> 0,
               priceInCents |-> 0, splitPaymentTx |-> FALSE]
NoCalls == [verify |-> 0, settle |-> 0, submit |-> 0, sleep |-> 0,
            split |-> 0]
NoHist == [outcomes |-> <<>>, headerInspected |-> FALSE, gaveUp |-> {},
           facilitator |-> [answer |-> "none", expectedAmount |-> 0],
           split |-> [creatorAddress |-> Undefined, marginInCents |-> 0]]
NoHeader == [kind |-> "absent", scheme |-> "none", network |-> "none"]
NoBody == [parses |-> FALSE, schemaOk |-> FALSE, country |-> "none",
           zip |-> <<>>]
NoProduct == [found |-> FALSE, description |-> <<>>, variants |-> <<>>]
NoMetadata == [margin |-> 0, creatorAddress |-> Undefined]
NoListing == [parses |-> FALSE, prompt |-> <<>>, imageUrl |-> FALSE,
              description |-> <<>>, hasMargin |-> FALSE, margin |-> 0,
              creatorAddress |-> <<>>]

\* Policies a direct caller passes: every field given, or retryOn left out
DirectOptions ==
  LET timing == {[initialDelay |-> 1000, maxDelay |-> 1500,
                  backoffMultiplier |-> <<2, 1>>],
                 [initialDelay |-> 1500, maxDelay |-> 20000,
                  backoffMultiplier |-> <<9, 5>>]}
      base == {[maxAttempts |-> n, jitter |-> j,
                initialDelay |-> t.initialDelay, maxDelay |-> t.maxDelay,
                backoffMultiplier |-> t.backoffMultiplier] :
                 n \in 1 .. MaxAttemptsBound, j \in BOOLEAN, t \in timing}
      withPredicate ==
        {[maxAttempts |-> b.maxAttempts, jitter |-> b.jitter,
          initialDelay |-> b.initialDelay, maxDelay |-> b.maxDelay,
          backoffMultiplier |-> b.backoffMultiplier, retryOn |-> r] :
           b \in base, r \in {"always", "never", "PRINTIFY_OPERATION"}}
  IN base \cup withPredicate
       \cup {RETRY_PRESETS.API_CALL, RETRY_PRESETS.WORKFLOW}

\* withRetry is called with a policy and an operation that throws values of
\* thrown
InitRetryWith(thrown) ==
  /\ route = "withRetry"
  /\ options \in DirectOptions
  /\ cfg = [price |-> <<>>, network |-> "none"]
  /\ header = NoHeader
  /\ body = NoBody
  /\ faults = thrown
  /\ parked = <<>>
  /\ listing = NoListing
  /\ store = NoProduct
  /\ idempotencyKey = "null"
  /\ product = NoProduct
  /\ metadata = NoMetadata
  /\ splitPaymentTx = FALSE
  /\ pc = "withRetry"
  /\ atomic = NoAtomic
  /\ reqs = <<>>
  /\ selected = NoRequirement
  /\ payment = NoPayment
  /\ verification = NoVerification
  /\ bodyStatus = "unread"
  /\ stack = <<Frame("fn")>>
  /\ signal = NoSignal
  /\ calls = NoCalls
  /\ hist = NoHist
  /\ vendor = [products |-> 0, orders |-> 0]
  /\ settlement = NoSettlement
  /\ result = NoResult
  /\ response = NoResponse

InitRetry == InitRetryWith(ThrownValues)

\* the promise withRetry returned has settled
Settled ==
  /\ pc = "withRetry"
  /\ stack = <<>>
  /\ pc' = "done"
  /\ UNCHANGED <<inputVars, orderVars, payVars, stack, signal, calls, hist, vendor, result>>

NextRetry ==
  \/ StepReturns
  \/ StepThrows
  \/ Return
  \/ CatchThrow
  \/ CatchSleep
  \/ Wake
  \/ Settled

SpecRetry == InitRetry /\ [][NextRetry]_vars

\* What the operation throws in the runs checked for termination: an Error
\* the default predicate retries, an Error no predicate but "always"
\* retries, and a value that is not an Error
TerminationFaults ==
  {[isError |-> TRUE, text |-> {"timeout"}],
   [isError |-> TRUE, text |-> {"400"}],
   [isError |-> FALSE, text |-> {"503"}]}

\* Every call of the operation settles and every timer fires: a step that
\* can be taken is taken
SpecRetryFair ==
  InitRetryWith(TerminationFaults) /\ [][NextRetry]_vars /\ WF_vars(NextRetry)

(***************************************************************************)
(* Pricing: x402/shared processPriceToAtomicAmount as verifyPayment uses it *)
(***************************************************************************)
Digits == <<"0", "1", "2", "3", "4", "5", "6", "7", "8", "9">>
IsDigit(c) == \E i \in 1 .. 10 : Digits[i] = c
DigitValue(c) == (CHOOSE i \in 1 .. 10 : Digits[i] = c) - 1

\* x.replace(/[^0-9.-]+/g, "")
StripMoney(str) == SelectSeq(str, LAMBDA c : IsDigit(c) \/ c \in {".", "-"})

RECURSIVE DigitsValue(_)
DigitsValue(str) ==
  IF str = <<>> THEN 0
  ELSE 10 * DigitsValue(SubSeq(str, 1, Len(str) - 1))
         + DigitValue(str[Len(str)])

\* z.coerce.number() on the stripped text, for non-negative decimals:
\* the empty text is 0, digits with at most one "." are a number, anything
\* else is NaN
CoerceNumber(str) ==
  LET dots == {i \in 1 .. Len(str) : str[i] = "."}
  IN IF \E i \in 1 .. Len(str) : str[i] = "-" THEN [nan |-> TRUE, value |-> <<0, 1>>]
     ELSE IF Cardinality(dots) > 1 \/ str = <<".">> THEN [nan |-> TRUE, value |-> <<0, 1>>]
     ELSE IF dots = {} THEN [nan |-> FALSE, value |-> <<DigitsValue(str), 1>>]
     ELSE LET d == CHOOSE i \in dots : TRUE
              whole == SubSeq(str, 1, d - 1)
              frac == SubSeq(str, d + 1, Len(str))
          IN [nan |-> FALSE,
              value |-> <<DigitsValue(whole) * Pow(10, Len(frac))
                            + DigitsValue(frac),
                          Pow(10, Len(frac))>>]

\* moneySchema: .min(0.0001).max(999999999)
MoneyOk(number) ==
  /\ ~number.nan
  /\ FracLeq(<<1, 10000>>, number.value)
  /\ \/ number.value[1] \div number.value[2] < 999999999
     \/ /\ number.value[1] \div number.value[2] = 999999999
        /\ number.value[1] % number.value[2] = 0

\* the asset taken with two decimals
AssetDecimalsCents(network) ==
  CASE network = "base" -> 2
    [] network = "base-sepolia" -> 2
    [] network = "solana" -> 2
    [] OTHER -> -1

\* Networks the pricing table knows, and the decimals of their default asset
AssetDecimals(network) ==
  CASE network = "base" -> 6
    [] network = "base-sepolia" -> 6
    [] network = "solana" -> 6
    [] OTHER -> -1

\* a list that also holds the non-EVM network
SupportedNetworksWithSolana == {"base", "base-sepolia", "solana"}

SupportedEVMNetworks == {"base", "base-sepolia"}

\* Outcomes of processPriceToAtomicAmount(config.price, config.network):
\* { error }, { maxAmountRequired, asset }, or an exception of the lookup of
\* the default asset of a network the table does not hold
processPriceToAtomicAmount(price, network) ==
  LET number == CoerceNumber(StripMoney(price))
  IN IF ~MoneyOk(number)
       THEN {[kind |-> "error", maxAmountRequired |-> 0, decimals |-> 0]}
     ELSE IF AssetDecimals(network) < 0
       THEN {[kind |-> "error", maxAmountRequired |-> 0, decimals |-> 0],
             [kind |-> "throw", maxAmountRequired |-> 0, decimals |-> 0]}
     ELSE {[kind |-> "ok",
            maxAmountRequired |->
              (number.value[1] \div number.value[2])
                  * Pow(10, AssetDecimals(network))
                + ((number.value[1] % number.value[2])
                     * Pow(10, AssetDecimals(network)))
                    \div number.value[2],
            decimals |-> AssetDecimals(network)]}

\* the first requirement, whatever the payment's scheme and network
findFirstRequirement(requirements, decoded) ==
  IF requirements = <<>> THEN NoRequirement ELSE requirements[1]

\* findMatchingPaymentRequirements: the first requirement with the payment's
\* scheme and network, or none
findMatchingPaymentRequirements(requirements, decoded) ==
  LET hits == {i \in 1 .. Len(requirements) :
                 /\ requirements[i].scheme = decoded.scheme
                 /\ requirements[i].network = decoded.network}
  IN IF hits = {} THEN NoRequirement
     ELSE requirements[CHOOSE i \in hits : \A j \in hits : i <= j]

(***************************************************************************)
(* Requests                                                                *)
(***************************************************************************)
Price20 == <<"$", "2", "0", ".", "0", "0">>

\* The PaymentConfig each route passes to verifyPayment
RouteConfig(r) ==
  CASE r = "shirts" -> [price |-> Price20, network |-> "base"]
    [] r = "from-image" -> [price |-> Price20, network |-> "base"]

\* X-PAYMENT header values: none, empty, text that does not decode, and
\* encoded payments of the exact scheme
Headers ==
  {NoHeader,
   [kind |-> "empty", scheme |-> "none", network |-> "none"],
   [kind |-> "malformed", scheme |-> "none", network |-> "none"],
   [kind |-> "token", scheme |-> "exact", network |-> "base"],
   [kind |-> "token", scheme |-> "exact", network |-> "base-sepolia"]}

\* What the facilitator's verify resolves with: the optional fields are
\* recorded by their presence
Verifications ==
  {[returned |-> TRUE, isValid |-> TRUE, invalidReason |-> FALSE,
    payer |-> TRUE]}
    \cup [returned : {TRUE}, isValid : {FALSE}, invalidReason : BOOLEAN,
          payer : BOOLEAN]

\* JSON bodies: whether they parse, whether they pass the zod schema, and the
\* address fields the business rule reads
ZipCodes == {<<"1", "2", "3", "4", "5">>,
             <<"1", "2", "3", "4", "5", "-", "6", "7", "8", "9">>,
             <<"1", "2", "3", "4">>,
             <<"1", "2", "3", "4", "5", "6">>,
             <<"K", "1", "A", "0", "B", "1">>}

Bodies ==
  {NoBody,
   [parses |-> TRUE, schemaOk |-> FALSE, country |-> "US",
    zip |-> <<"1", "2", "3", "4", "5">>]}
    \cup [parses : {TRUE}, schemaOk : {TRUE}, country : {"US"},
          zip : ZipCodes]
    \cup [parses : {TRUE}, schemaOk : {TRUE}, country : {"CA"},
          zip : {<<"K", "1", "A", "0", "B", "1">>}]

\* the pattern without the optional four-digit extension: /^\d{5}$/
IsUSZipFiveDigits(zip) ==
  /\ Len(zip) = 5
  /\ \A i \in 1 .. 5 : IsDigit(zip[i])

\* /^\d{5}(-\d{4})?$/.test(zip)
IsUSZip(zip) ==
  \/ /\ Len(zip) = 5
     /\ \A i \in 1 .. 5 : IsDigit(zip[i])
  \/ /\ Len(zip) = 10
     /\ \A i \in 1 .. 5 : IsDigit(zip[i])
     /\ zip[6] = "-"
     /\ \A i \in 7 .. 10 : IsDigit(zip[i])

validateAddressBusinessRules(addr) ==
  IF addr.country = "US" /\ ~IsUSZip(addr.zip) THEN FALSE ELSE TRUE

\* What reading and validating the body leads to
BodyOutcome(b) ==
  IF ~b.parses THEN "threw"
  ELSE IF ~b.schemaOk THEN "invalid"
  ELSE IF ~validateAddressBusinessRules(b) THEN "business"
  ELSE "ok"

Respond(status, accepts, error) ==
  [status |-> status, accepts |-> accepts, error |-> error,
   payer |-> FALSE, productId |-> 0, orderId |-> 0,
   priceInCents |-> 0, splitPaymentTx |-> FALSE]

\* a 402 answer that leaves the accepts list out
PaymentRequiredWithoutAccepts(requirements, error) ==
  Respond(402, -1, error)

\* NextResponse.json({ x402Version, error, accepts: paymentRequirements },
\* { status: 402 })
PaymentRequired(requirements, error) ==
  Respond(402, Len(requirements), error)

\* if (!paymentHeader)
HeaderMissing(h) == h.kind \in {"absent", "empty"}

\* verifyPayment returns success only if verification.isValid
PaymentAcceptedAlways(v) == TRUE

PaymentAccepted(v) == v.isValid

\* the 402 answer to an invalid payment, without the payer
InvalidPaymentWithoutPayer(requirements, v) ==
  Respond(402, Len(requirements),
          IF v.invalidReason THEN "invalidReason"
          ELSE "Payment verification failed")

\* if (!verification.isValid): the 402 answer with the reason and the payer
InvalidPayment(requirements, v) ==
  [PaymentRequired(requirements,
                   IF v.invalidReason THEN "invalidReason"
                   ELSE "Payment verification failed")
     EXCEPT !.payer = v.payer]

InitRequest ==
  /\ header \in Headers
  /\ options = <<>>
  /\ pc = "pricing"
  /\ atomic = NoAtomic
  /\ reqs = <<>>
  /\ selected = NoRequirement
  /\ payment = NoPayment
  /\ verification = NoVerification
  /\ bodyStatus = "unread"
  /\ stack = <<>>
  /\ signal = NoSignal
  /\ calls = NoCalls
  /\ hist = NoHist
  /\ vendor = [products |-> 0, orders |-> 0]
  /\ settlement = NoSettlement
  /\ result = NoResult
  /\ response = NoResponse
  /\ product = NoProduct
  /\ metadata = NoMetadata
  /\ splitPaymentTx = FALSE

\* A request to one of the two fixed-price routes
Init ==
  /\ route \in {"shirts", "from-image"}
  /\ cfg = RouteConfig(route)
  /\ body \in Bodies
  /\ faults = ThrownValues
  /\ parked = <<>>
  /\ listing = NoListing
  /\ store = NoProduct
  /\ idempotencyKey = "null"
  /\ InitRequest

(***************************************************************************)
(* verifyPayment                                                           *)
(***************************************************************************)
\* a handler that answers a repeated Idempotency-Key with the response of
\* the request that carried it first
PricingWithIdempotencyCache ==
  /\ pc = "pricing"
  /\ IF /\ idempotencyKey # "null"
        /\ parked # <<>>
        /\ Head(parked).idempotencyKey = idempotencyKey
        /\ Head(parked).pc = "done"
       THEN /\ response' = Head(parked).response
            /\ pc' = "done"
            /\ atomic' = atomic
       ELSE \E out \in processPriceToAtomicAmount(cfg.price, cfg.network) :
              CASE out.kind = "error" ->
                     /\ response' = Respond(500, -1, "pricing")
                     /\ pc' = "done"
                     /\ atomic' = atomic
                [] out.kind = "throw" ->
                     /\ response' = Respond(500, -1, "INTERNAL_ERROR")
                     /\ pc' = "done"
                     /\ atomic' = atomic
                [] out.kind = "ok" ->
                     /\ atomic' = [maxAmountRequired |-> out.maxAmountRequired,
                                   decimals |-> out.decimals]
                     /\ pc' = "requirements"
                     /\ response' = response
  /\ UNCHANGED <<inputVars, orderVars, engineVars, reqs, selected, payment,
                 verification, bodyStatus, settlement, calls, hist>>

\* Process price to atomic amount; an exception leaves verifyPayment and is
\* caught by the route's catch
Pricing ==
  /\ pc = "pricing"
  /\ \E out \in processPriceToAtomicAmount(cfg.price, cfg.network) :
       CASE out.kind = "error" ->
              /\ response' = Respond(500, -1, "pricing")
              /\ pc' = "done"
              /\ atomic' = atomic
         [] out.kind = "throw" ->
              /\ response' = Respond(500, -1, "INTERNAL_ERROR")
              /\ pc' = "done"
              /\ atomic' = atomic
         [] out.kind = "ok" ->
              /\ atomic' = [maxAmountRequired |-> out.maxAmountRequired,
                            decimals |-> out.decimals]
              /\ pc' = "requirements"
              /\ response' = response
  /\ UNCHANGED <<inputVars, orderVars, engineVars, reqs, selected, payment,
                 verification, bodyStatus, settlement, calls, hist>>

\* Build payment requirements
BuildRequirements ==
  /\ pc = "requirements"
  /\ IF cfg.network \in SupportedEVMNetworks
       THEN /\ reqs' = <<[scheme |-> "exact", network |-> cfg.network,
                          maxAmountRequired |-> atomic.maxAmountRequired]>>
            /\ pc' = "header"
            /\ response' = response
       ELSE /\ response' = Respond(500, -1, "Unsupported network")
            /\ pc' = "done"
            /\ reqs' = reqs
  /\ UNCHANGED <<inputVars, orderVars, engineVars, atomic, selected, payment,
                 verification, bodyStatus, settlement, calls, hist>>

\* Check for payment header
CheckHeader ==
  /\ pc = "header"
  /\ hist' = [hist EXCEPT !.headerInspected = TRUE]
  /\ IF HeaderMissing(header)
       THEN /\ response' = PaymentRequired(reqs,
                                           "X-PAYMENT header is required")
            /\ pc' = "done"
       ELSE /\ pc' = "decode"
            /\ response' = response
  /\ UNCHANGED <<inputVars, orderVars, engineVars, atomic, reqs, selected, payment,
                 verification, bodyStatus, settlement, calls>>

\* Decode payment
Decode ==
  /\ pc = "decode"
  /\ IF header.kind # "token"
       THEN /\ response' = PaymentRequired(reqs, "decode error")
            /\ pc' = "done"
            /\ payment' = payment
       ELSE /\ payment' = [scheme |-> header.scheme,
                           network |-> header.network]
            /\ pc' = "match"
            /\ response' = response
  /\ UNCHANGED <<inputVars, orderVars, engineVars, atomic, reqs, selected,
                 verification, bodyStatus, settlement, calls, hist>>

\* Find matching requirements
Match ==
  /\ pc = "match"
  /\ LET found == findMatchingPaymentRequirements(reqs, payment) IN
       IF found = NoRequirement
         THEN /\ response' = PaymentRequired(reqs,
                    "Unable to find matching payment requirements")
              /\ pc' = "done"
              /\ selected' = selected
         ELSE /\ selected' = found
              /\ pc' = "verify"
              /\ response' = response
  /\ UNCHANGED <<inputVars, orderVars, engineVars, atomic, reqs, payment,
                 verification, bodyStatus, settlement, calls, hist>>

\* await verify(decodedPayment, selectedPaymentRequirements) resolves
Verify ==
  /\ pc = "verify"
  /\ calls' = [calls EXCEPT !.verify = @ + 1]
  /\ \E v \in Verifications :
       /\ verification' = v
       /\ IF PaymentAccepted(v)
            THEN /\ pc' = "body"
                 /\ response' = response
            ELSE /\ response' = InvalidPayment(reqs, v)
                 /\ pc' = "done"
  /\ UNCHANGED <<inputVars, orderVars, engineVars, atomic, reqs, selected, payment,
                 bodyStatus, settlement, hist>>

\* await verify(...) rejects: verifyPayment has no handler, the route's
\* catch answers
VerifyThrows ==
  /\ pc = "verify"
  /\ calls' = [calls EXCEPT !.verify = @ + 1]
  /\ response' = Respond(500, -1, "INTERNAL_ERROR")
  /\ pc' = "done"
  /\ UNCHANGED <<inputVars, orderVars, engineVars, atomic, reqs, selected, payment,
                 verification, bodyStatus, settlement, hist>>

(***************************************************************************)
(* POST /api/shirts and POST /api/shirts/from-image                        *)
(***************************************************************************)
\* STEP 2: req.json(), the zod schema, the business checks
ValidateBody ==
  /\ pc = "body"
  /\ bodyStatus' = BodyOutcome(body)
  /\ CASE bodyStatus' = "threw" ->
            /\ response' = Respond(500, -1, "INTERNAL_ERROR")
            /\ pc' = "done"
       [] bodyStatus' = "invalid" ->
            /\ response' = Respond(400, -1, "BAD_REQUEST")
            /\ pc' = "done"
       [] bodyStatus' = "business" ->
            /\ response' = Respond(422, -1, "INVALID_ADDRESS")
            /\ pc' = "done"
       [] bodyStatus' = "ok" ->
            /\ pc' = "start"
            /\ response' = response
  /\ UNCHANGED <<inputVars, orderVars, engineVars, atomic, reqs, selected,
                 payment, verification, settlement, calls, hist>>

\* The withRetry invocation the route's side effect starts with
RootOf(r) ==
  CASE r = "shirts" -> "workflow"
    [] r = "from-image" -> "direct"

\* STEP 3: the side effect is started
StartSideEffect ==
  /\ pc = "start"
  /\ pc' = "sideEffect"
  /\ stack' = <<Frame(RootOf(route))>>
  /\ UNCHANGED <<inputVars, orderVars, payVars, signal, result, vendor, calls, hist>>

\* a .catch handler that reports the failed workflow as a success
executeCreateShirtWorkflowSwallowing(settled) ==
  [rejects |-> FALSE, success |-> TRUE, productId |-> settled.productId,
   orderId |-> settled.orderId, error |-> settled.text]

\* the workflow without its .catch handler: the rejection of withRetry is
\* the rejection of the workflow
executeCreateShirtWorkflowWithoutCatch(settled) ==
  IF settled.kind = "resolved"
    THEN [rejects |-> FALSE, success |-> TRUE,
          productId |-> settled.productId, orderId |-> settled.orderId,
          error |-> {}]
    ELSE [rejects |-> TRUE, success |-> FALSE, productId |-> 0,
          orderId |-> 0, error |-> settled.text]

\* How the promise of executeCreateShirtWorkflow settles, given how its
\* withRetry promise settled: it resolves with the operation's return value,
\* or with the value of the .catch handler
executeCreateShirtWorkflow(settled) ==
  IF settled.kind = "resolved"
    THEN [rejects |-> FALSE, success |-> TRUE,
          productId |-> settled.productId, orderId |-> settled.orderId,
          error |-> {}]
    ELSE [rejects |-> FALSE, success |-> FALSE, productId |-> 0,
          orderId |-> 0, error |-> settled.text]

\* a handler that settles whatever the side effect did
SideEffectSettledSettlesAnyway ==
  /\ pc = "sideEffect"
  /\ stack = <<>>
  /\ result.kind # "pending"
  /\ pc' = "settle"
  /\ UNCHANGED <<inputVars, orderVars, engineVars, atomic, reqs, selected, payment,
                 verification, bodyStatus, settlement, response, calls, hist>>

\* The side effect has settled.  /api/shirts: STEP 4 reads result.success.
\* /api/shirts/from-image: createDirectPrintifyOrder returns, or throws into
\* the route's catch.
SideEffectSettled ==
  /\ pc = "sideEffect"
  /\ stack = <<>>
  /\ result.kind # "pending"
  /\ IF route = "shirts"
       THEN IF executeCreateShirtWorkflow(result).rejects
              THEN /\ response' = Respond(500, -1, "INTERNAL_ERROR")
                   /\ pc' = "done"
            ELSE IF executeCreateShirtWorkflow(result).success
              THEN /\ pc' = "settle"
                   /\ response' = response
              ELSE /\ response' = Respond(500, -1, "WORKFLOW_FAILED")
                   /\ pc' = "done"
       ELSE IF result.kind = "resolved"
              THEN /\ pc' = "settle"
                   /\ response' = response
              ELSE /\ response' = Respond(500, -1, "INTERNAL_ERROR")
                   /\ pc' = "done"
  /\ UNCHANGED <<inputVars, orderVars, engineVars, atomic, reqs, selected, payment,
                 verification, bodyStatus, settlement, calls, hist>>

\* What the facilitator's settle does: resolves with success, resolves
\* without, or throws
SettleOutcomes == {"success", "failure", "throw"}

\* settlePayment without its try/catch
settlePaymentRethrows(outcome) ==
  IF outcome = "success"
    THEN [threw |-> FALSE, success |-> TRUE, error |-> "none"]
  ELSE IF outcome = "failure"
    THEN [threw |-> FALSE, success |-> FALSE, error |-> "Settlement failed"]
  ELSE [threw |-> TRUE, success |-> FALSE, error |-> "Settlement error"]

\* settlePayment(payment, requirements): its try/catch turns an exception of
\* settle into a result, threw says whether settlePayment itself throws
settlePayment(outcome) ==
  IF outcome = "success"
    THEN [threw |-> FALSE, success |-> TRUE, error |-> "none"]
  ELSE IF outcome = "failure"
    THEN [threw |-> FALSE, success |-> FALSE, error |-> "Settlement failed"]
  ELSE [threw |-> FALSE, success |-> FALSE, error |-> "Settlement error"]

\* a coordinator that remembers settled payments: the settler is not called
\* for a payment another request has already settled
SettleOncePerPayment ==
  /\ pc = "settle"
  /\ IF \E i \in 1 .. Len(parked) :
          parked[i].payment = payment /\ parked[i].calls.settle > 0
       THEN /\ calls' = calls
            /\ settlement' = settlement
            /\ pc' = "respond"
            /\ response' = response
       ELSE /\ calls' = [calls EXCEPT !.settle = @ + 1]
            /\ \E outcome \in SettleOutcomes :
                 /\ settlement' = settlePayment(outcome)
                 /\ IF settlement'.threw
                      THEN /\ response' = Respond(500, -1, "INTERNAL_ERROR")
                           /\ pc' = "done"
                      ELSE /\ pc' = "respond"
                           /\ response' = response
  /\ UNCHANGED <<inputVars, orderVars, engineVars, atomic, reqs, selected,
                 payment, verification, bodyStatus, hist>>

\* STEP 4: settle the payment
Settle ==
  /\ pc = "settle"
  /\ calls' = [calls EXCEPT !.settle = @ + 1]
  /\ \E outcome \in SettleOutcomes :
       /\ settlement' = settlePayment(outcome)
       /\ IF settlement'.threw
            THEN /\ response' = Respond(500, -1, "INTERNAL_ERROR")
                 /\ pc' = "done"
            ELSE /\ pc' = "respond"
                 /\ response' = response
  /\ UNCHANGED <<inputVars, orderVars, engineVars, atomic, reqs, selected, payment,
                 verification, bodyStatus, hist>>

\* return NextResponse.json({..., productId, orderId}, { status: 200 })
RespondCompleted ==
  /\ pc = "respond"
  /\ response' = [Respond(200, -1, "none") EXCEPT
                    !.productId = IF route = "shirts"
                                    THEN executeCreateShirtWorkflow(result).productId
                                    ELSE result.productId,
                    !.orderId = IF route = "shirts"
                                  THEN executeCreateShirtWorkflow(result).orderId
                                  ELSE result.orderId]
  /\ pc' = "done"
  /\ UNCHANGED <<inputVars, orderVars, engineVars, atomic, reqs, selected, payment,
                 verification, bodyStatus, settlement, calls, hist>>

Next ==
  \/ Pricing
  \/ BuildRequirements
  \/ CheckHeader
  \/ Decode
  \/ Match
  \/ Verify
  \/ VerifyThrows
  \/ ValidateBody
  \/ StartSideEffect
  \/ Enter
  \/ StepReturns
  \/ StepThrows
  \/ Return
  \/ CatchThrow
  \/ CatchSleep
  \/ Wake
  \/ SideEffectSettled
  \/ Settle
  \/ RespondCompleted

Spec == Init /\ [][Next]_vars

\* A request to POST /api/shirts whose collaborators throw the values of
\* TerminationFaults
InitShirts ==
  /\ route = "shirts"
  /\ cfg = RouteConfig(route)
  /\ body \in Bodies
  /\ faults = TerminationFaults
  /\ parked = <<>>
  /\ listing = NoListing
  /\ store = NoProduct
  /\ idempotencyKey = "null"
  /\ InitRequest

\* Every awaited call settles and every timer fires: a step of the handler
\* that can be taken is taken
SpecShirtsFair == InitShirts /\ [][Next]_vars /\ WF_vars(Next)

(***************************************************************************)
(* The same handlers over verifyPayment called with any PaymentConfig      *)
(***************************************************************************)
PaymentConfigs ==
  [price : {Price20, <<"$", "0", ".", "0", "1">>, <<"f", "r", "e", "e">>,
            <<"$", "1", ".", "2", ".", "3">>},
   network : {"base", "base-sepolia", "solana", "mainnet"}]

InitPricing ==
  /\ route \in {"shirts", "from-image"}
  /\ cfg \in PaymentConfigs
  /\ body \in {b \in Bodies : b.country = "US" /\ Len(b.zip) = 5}
  /\ faults = ThrownValues
  /\ parked = <<>>
  /\ listing = NoListing
  /\ store = NoProduct
  /\ idempotencyKey = "null"
  /\ InitRequest

SpecPricing == InitPricing /\ [][Next]_vars

(***************************************************************************)
(* JSON text.  A text is a sequence of one-character strings; an object is *)
(* the sequence of its members [key, value] in insertion order.  Only what *)
(* the program writes and reads is modelled: flat objects whose values are *)
(* strings and non-negative integers, and the texts null, "..." and 123.   *)
(***************************************************************************)
Quote == "\""
Backslash == "\\"

StringValue(s) == [kind |-> "string", str |-> s, num |-> 0]
NumberValue(n) == [kind |-> "number", str |-> <<>>, num |-> n]

\* The characters of a JSON string literal: " and \ are escaped
RECURSIVE QuoteString(_)
QuoteString(s) ==
  IF s = <<>> THEN <<>>
  ELSE (IF Head(s) \in {Quote, Backslash}
          THEN <<Backslash, Head(s)>> ELSE <<Head(s)>>)
         \o QuoteString(Tail(s))

\* The decimal digits of a non-negative integer
RECURSIVE NumberToString(_)
NumberToString(n) ==
  IF n < 10 THEN <<Digits[n + 1]>>
  ELSE NumberToString(n \div 10) \o <<Digits[(n % 10) + 1]>>

\* a value whose string literal copies the characters without escaping them
StringifyValueUnescaped(v) ==
  IF v.kind = "string"
    THEN <<Quote>> \o v.str \o <<Quote>>
    ELSE NumberToString(v.num)

\* The text of a member value
StringifyValue(v) ==
  IF v.kind = "string"
    THEN <<Quote>> \o QuoteString(v.str) \o <<Quote>>
    ELSE NumberToString(v.num)

RECURSIVE StringifyMembers(_)
StringifyMembers(members) ==
  IF members = <<>> THEN <<>>
  ELSE <<Quote>> \o QuoteString(Head(members).key) \o <<Quote, ":">>
         \o StringifyValue(Head(members).value)
         \o (IF Tail(members) = <<>> THEN <<>>
             ELSE <<",">> \o StringifyMembers(Tail(members)))

\* JSON.stringify(object)
JSONStringify(members) == <<"{">> \o StringifyMembers(members) \o <<"}">>

\* A failed read
NoParse == [ok |-> FALSE, value |-> Undefined, rest |-> <<>>]

\* Reads the rest of a string literal, the opening quote already consumed
RECURSIVE ReadString(_, _)
ReadString(text, acc) ==
  IF text = <<>> THEN NoParse
  ELSE IF Head(text) = Quote
    THEN [ok |-> TRUE, value |-> StringValue(acc), rest |-> Tail(text)]
  ELSE IF Head(text) = Backslash
    THEN IF Len(text) >= 2 /\ text[2] \in {Quote, Backslash, "/"}
           THEN ReadString(SubSeq(text, 3, Len(text)), Append(acc, text[2]))
           ELSE NoParse
  ELSE ReadString(Tail(text), Append(acc, Head(text)))

\* Reads a number: 0, or digits that do not start with 0
ReadNumber(text) ==
  LET n == CHOOSE k \in 0 .. Len(text) :
             /\ \A i \in 1 .. k : IsDigit(text[i])
             /\ k < Len(text) => ~IsDigit(text[k + 1])
  IN IF n = 0 \/ (n > 1 /\ text[1] = "0") THEN NoParse
     ELSE [ok |-> TRUE, value |-> NumberValue(DigitsValue(SubSeq(text, 1, n))),
           rest |-> SubSeq(text, n + 1, Len(text))]

\* Reads a member value: a string or a number
ReadValue(text) ==
  IF text = <<>> THEN NoParse
  ELSE IF Head(text) = Quote THEN ReadString(Tail(text), <<>>)
  ELSE ReadNumber(text)

\* Reads the members of an object, the opening brace already consumed
RECURSIVE ReadMembers(_, _)
ReadMembers(text, acc) ==
  IF text = <<>> \/ Head(text) # Quote THEN NoParse
  ELSE LET key == ReadString(Tail(text), <<>>) IN
    IF ~key.ok \/ key.rest = <<>> \/ Head(key.rest) # ":" THEN NoParse
    ELSE LET val == ReadValue(Tail(key.rest))
             members == Append(acc, [key |-> key.value.str,
                                     value |-> val.value])
         IN IF ~val.ok \/ val.rest = <<>> THEN NoParse
            ELSE IF Head(val.rest) = "}"
              THEN [ok |-> TRUE,
                    value |-> [kind |-> "object", members |-> members],
                    rest |-> Tail(val.rest)]
            ELSE IF Head(val.rest) = ","
              THEN ReadMembers(Tail(val.rest), members)
            ELSE NoParse

\* JSON.parse(text): ok is FALSE when it throws
JSONParse(text) ==
  LET read ==
        IF text = <<>> THEN NoParse
        ELSE IF text = <<"n", "u", "l", "l">>
          THEN [ok |-> TRUE, value |-> [kind |-> "null"], rest |-> <<>>]
        ELSE IF text = <<"{", "}">>
          THEN [ok |-> TRUE,
                value |-> [kind |-> "object", members |-> <<>>],
                rest |-> <<>>]
        ELSE IF Head(text) = "{" THEN ReadMembers(Tail(text), <<>>)
        ELSE ReadValue(text)
  IN IF read.ok /\ read.rest = <<>> THEN read ELSE NoParse

\* value.key of a parsed value: the last member of that name of an object,
\* undefined otherwise
Property(value, key) ==
  IF value.kind # "object" THEN Undefined
  ELSE LET at == {i \in 1 .. Len(value.members) :
                    value.members[i].key = key}
       IN IF at = {} THEN Undefined
          ELSE value.members[CHOOSE i \in at : \A j \in at : j <= i].value

\* Whether a value counts as true in a condition
Truthy(v) ==
  \/ v.kind = "object"
  \/ v.kind = "string" /\ v.str # <<>>
  \/ v.kind = "number" /\ v.num # 0

(***************************************************************************)
(* POST /api/shirts/products/[productId]/order                             *)
(***************************************************************************)
\* The member names of the metadata object
KeyDescription ==
  <<"d", "e", "s", "c", "r", "i", "p", "t", "i", "o", "n">>
KeyMargin == <<"m", "a", "r", "g", "i", "n">>
KeyBasePrice == <<"b", "a", "s", "e", "P", "r", "i", "c", "e">>
KeyCreatorAddress ==
  <<"c", "r", "e", "a", "t", "o", "r", "A", "d", "d", "r", "e", "s", "s">>

RECURSIVE Repeat(_, _)
Repeat(c, n) == IF n = 0 THEN <<>> ELSE <<c>> \o Repeat(c, n - 1)

\* Creator addresses: 0x and 40 hexadecimal digits
CreatorAddresses ==
  {<<"0", "x">> \o Repeat("a", 39) \o <<"F">>,
   <<"0", "x">> \o Repeat("0", 39) \o <<"1">>}

\* product.description as the vendor stores it: text that is not JSON, the
\* JSON text null, or an object with a numeric margin, a margin that is a
\* string, or none, and with a creatorAddress or not
Descriptions ==
  LET creator == CHOOSE a \in CreatorAddresses : TRUE
      margins == {<<>>}
                   \cup {<<[key |-> KeyMargin, value |-> NumberValue(m)]>> :
                           m \in {0, 500}}
                   \cup {<<[key |-> KeyMargin,
                            value |-> StringValue(<<"5", "0", "0">>)]>>}
      creators == {<<>>, <<[key |-> KeyCreatorAddress,
                            value |-> StringValue(creator)]>>}
  IN {<<"a", " ", "s", "h", "i", "r", "t">>, <<"n", "u", "l", "l">>}
       \cup {JSONStringify(m \o c) : m \in margins, c \in creators}

\* product.variants
Variants ==
  {<<>>,
   <<[price |-> 3200, is_enabled |-> TRUE]>>,
   <<[price |-> 2500, is_enabled |-> FALSE]>>,
   <<[price |-> 0, is_enabled |-> FALSE],
     [price |-> 3200, is_enabled |-> TRUE]>>}

\* What printify.products.getOne resolves with: nothing, or a product
Products ==
  {NoProduct}
    \cup [found : {TRUE}, description : Descriptions, variants : Variants]

Max(a, b) == IF a >= b THEN a ELSE b

\* extractProductMetadata(product): the JSON of the description when it has
\* a numeric margin, else the margin computed from the first variant's price
extractProductMetadata(p) ==
  LET parsed == JSONParse(p.description)
      metadata_ == parsed.value
  IN IF /\ parsed.ok
        /\ Truthy(metadata_)
        /\ Property(metadata_, KeyMargin).kind = "number"
       THEN [margin |-> Property(metadata_, KeyMargin).num,
             creatorAddress |-> Property(metadata_, KeyCreatorAddress)]
       ELSE LET variantPrice ==
                  IF p.variants # <<>> /\ p.variants[1].price # 0
                    THEN p.variants[1].price ELSE 2500
            IN [margin |-> Max(0, variantPrice - 2500),
                creatorAddress |-> Undefined]

BASE_ORDER_PRICE == 2000
totalPriceInCents(m) == BASE_ORDER_PRICE + m.margin

\* What the facilitator's /verify does: answers valid, answers not valid,
\* answers with an HTTP error, or the fetch throws
FacilitatorAnswers == {"valid", "invalid", "notOk", "throws"}

\* verifyX402Payment without the response.ok test
verifyX402PaymentIgnoringStatus(h, answer) ==
  IF h.kind \in {"absent", "empty"}
    THEN [valid |-> FALSE, fetched |-> FALSE]
    ELSE [valid |-> answer \in {"valid", "notOk"}, fetched |-> TRUE]

\* verifyX402Payment(req, expectedAmountInCents): fetched says whether the
\* facilitator was called
verifyX402Payment(h, answer) ==
  IF h.kind \in {"absent", "empty"}
    THEN [valid |-> FALSE, fetched |-> FALSE]
    ELSE [valid |-> answer = "valid", fetched |-> TRUE]

createPaymentRequiredResponse(priceInCents) ==
  [Respond(402, -1, "PAYMENT_REQUIRED") EXCEPT !.priceInCents = priceInCents]

\* X-Payment-Token values: none, empty, and tokens
OrderHeaders == {h \in Headers : h.kind = "token" => h.network = "base"}

\* A request to the order route
InitOrder ==
  /\ route = "order"
  /\ cfg = [price |-> <<>>, network |-> "none"]
  /\ header \in OrderHeaders
  /\ options = <<>>
  /\ body \in Bodies
  /\ faults = ThrownValues
  /\ parked = <<>>
  /\ listing = NoListing
  /\ store \in Products
  /\ idempotencyKey = "null"
  /\ pc = "orderBody"
  /\ atomic = NoAtomic
  /\ reqs = <<>>
  /\ selected = NoRequirement
  /\ payment = NoPayment
  /\ verification = NoVerification
  /\ bodyStatus = "unread"
  /\ stack = <<>>
  /\ signal = NoSignal
  /\ calls = NoCalls
  /\ hist = NoHist
  /\ vendor = [products |-> 0, orders |-> 0]
  /\ settlement = NoSettlement
  /\ result = NoResult
  /\ response = NoResponse
  /\ product = NoProduct
  /\ metadata = NoMetadata
  /\ splitPaymentTx = FALSE

\* req.json(), the zod schema, the business checks
OrderValidateBody ==
  /\ pc = "orderBody"
  /\ bodyStatus' = BodyOutcome(body)
  /\ CASE bodyStatus' = "threw" ->
            /\ response' = Respond(500, -1, "INTERNAL_ERROR")
            /\ pc' = "done"
       [] bodyStatus' = "invalid" ->
            /\ response' = Respond(400, -1, "BAD_REQUEST")
            /\ pc' = "done"
       [] bodyStatus' = "business" ->
            /\ response' = Respond(422, -1, "INVALID_ADDRESS")
            /\ pc' = "done"
       [] bodyStatus' = "ok" ->
            /\ pc' = "getPrintifyProduct"
            /\ response' = response
  /\ UNCHANGED <<inputVars, orderVars, engineVars, atomic, reqs, selected,
                 payment, verification, settlement, calls, hist>>

\* await getPrintifyProduct(productId) resolves
GetProductReturns ==
  /\ pc = "getPrintifyProduct"
  /\ product' = store
  /\ IF store.found
       THEN /\ pc' = "metadata"
            /\ response' = response
       ELSE /\ response' = Respond(404, -1, "NOT_FOUND")
            /\ pc' = "done"
  /\ UNCHANGED <<inputVars, engineVars, atomic, reqs, selected, payment,
                 verification, bodyStatus, settlement, calls, hist,
                 metadata, splitPaymentTx>>

\* await getPrintifyProduct(productId) rejects: the route's catch answers
GetProductThrows ==
  /\ pc = "getPrintifyProduct"
  /\ faults # {}
  /\ response' = Respond(500, -1, "INTERNAL_ERROR")
  /\ pc' = "done"
  /\ UNCHANGED <<inputVars, orderVars, engineVars, atomic, reqs, selected,
                 payment, verification, bodyStatus, settlement, calls, hist>>

\* extractProductMetadata(product) and the price of the order
ExtractMetadata ==
  /\ pc = "metadata"
  /\ metadata' = extractProductMetadata(product)
  /\ pc' = "verifyX402"
  /\ UNCHANGED <<inputVars, engineVars, payVars, calls, hist, product,
                 splitPaymentTx>>

\* await verifyX402Payment(req, totalPriceInCents)
VerifyX402 ==
  /\ pc = "verifyX402"
  /\ \E answer \in FacilitatorAnswers :
       LET paymentVerification == verifyX402Payment(header, answer) IN
         /\ calls' = IF paymentVerification.fetched
                       THEN [calls EXCEPT !.verify = @ + 1] ELSE calls
         /\ hist' = IF paymentVerification.fetched
                      THEN [hist EXCEPT !.facilitator =
                              [answer |-> answer,
                               expectedAmount |->
                                 totalPriceInCents(metadata)]]
                      ELSE hist
         /\ verification' = [returned |-> TRUE,
                             isValid |-> paymentVerification.valid,
                             invalidReason |-> FALSE, payer |-> FALSE]
         /\ IF paymentVerification.valid
              THEN /\ pc' = "variant"
                   /\ response' = response
              ELSE /\ response' = createPaymentRequiredResponse(
                                     totalPriceInCents(metadata))
                   /\ pc' = "done"
  /\ UNCHANGED <<inputVars, orderVars, engineVars, atomic, reqs, selected,
                 payment, bodyStatus, settlement>>

\* product.variants.find(v => v.is_enabled), then createPrintifyOrder is
\* called
FindVariant ==
  /\ pc = "variant"
  /\ IF \E i \in 1 .. Len(product.variants) : product.variants[i].is_enabled
       THEN /\ pc' = "createPrintifyOrder"
            /\ stack' = <<Frame("order")>>
            /\ response' = response
       ELSE /\ response' = Respond(404, -1, "VARIANT_NOT_FOUND")
            /\ pc' = "done"
            /\ stack' = stack
  /\ UNCHANGED <<inputVars, orderVars, atomic, reqs, selected, payment,
                 verification, bodyStatus, settlement, signal, result,
                 vendor, calls, hist>>

\* await createPrintifyOrder(...) has settled: the order, or the route's
\* catch
OrderSettled ==
  /\ pc = "createPrintifyOrder"
  /\ stack = <<>>
  /\ result.kind # "pending"
  /\ IF result.kind = "resolved"
       THEN /\ pc' = "split"
            /\ response' = response
       ELSE /\ response' = Respond(500, -1, "INTERNAL_ERROR")
            /\ pc' = "done"
  /\ UNCHANGED <<inputVars, orderVars, engineVars, atomic, reqs, selected,
                 payment, verification, bodyStatus, settlement, calls, hist>>

\* What transferMarginToCreator does: resolves with a transaction hash, or
\* throws (no signing key, or the transfer failed)
SplitOutcomes == {"txHash", "throws"}

\* the split without the margin > 0 test
TransferMarginWithoutMarginTest ==
  /\ pc = "split"
  /\ IF Truthy(metadata.creatorAddress)
       THEN \E outcome \in SplitOutcomes :
              /\ calls' = [calls EXCEPT !.split = @ + 1]
              /\ hist' = [hist EXCEPT !.split =
                            [creatorAddress |-> metadata.creatorAddress,
                             marginInCents |-> metadata.margin]]
              /\ splitPaymentTx' = (outcome = "txHash")
       ELSE /\ calls' = calls
            /\ hist' = hist
            /\ splitPaymentTx' = splitPaymentTx
  /\ pc' = "respondOrder"
  /\ UNCHANGED <<inputVars, engineVars, payVars, product, metadata>>

\* Handle split payment: if (metadata.creatorAddress && metadata.margin > 0)
\* try { await transferMarginToCreator(...) } catch { log only }
TransferMargin ==
  /\ pc = "split"
  /\ IF Truthy(metadata.creatorAddress) /\ metadata.margin > 0
       THEN \E outcome \in SplitOutcomes :
              /\ calls' = [calls EXCEPT !.split = @ + 1]
              /\ hist' = [hist EXCEPT !.split =
                            [creatorAddress |-> metadata.creatorAddress,
                             marginInCents |-> metadata.margin]]
              /\ splitPaymentTx' = (outcome = "txHash")
       ELSE /\ calls' = calls
            /\ hist' = hist
            /\ splitPaymentTx' = splitPaymentTx
  /\ pc' = "respondOrder"
  /\ UNCHANGED <<inputVars, engineVars, payVars, product, metadata>>

\* return NextResponse.json({..., orderId: order.id, pricing}, { status: 200 })
RespondOrder ==
  /\ pc = "respondOrder"
  /\ response' = [Respond(200, -1, "none") EXCEPT
                    !.orderId = result.orderId,
                    !.priceInCents = totalPriceInCents(metadata),
                    !.splitPaymentTx = splitPaymentTx]
  /\ pc' = "done"
  /\ UNCHANGED <<inputVars, orderVars, engineVars, atomic, reqs, selected,
                 payment, verification, bodyStatus, settlement, calls, hist>>

NextOrder ==
  \/ OrderValidateBody
  \/ GetProductReturns
  \/ GetProductThrows
  \/ ExtractMetadata
  \/ VerifyX402
  \/ FindVariant
  \/ StepReturns
  \/ StepThrows
  \/ Return
  \/ CatchThrow
  \/ CatchSleep
  \/ Wake
  \/ OrderSettled
  \/ TransferMargin
  \/ RespondOrder

SpecOrder == InitOrder /\ [][NextOrder]_vars

(***************************************************************************)
(* POST /api/shirts/products creates a listing; GET and POST               *)
(* /api/shirts/products/[productId]/order then read it back                *)
(***************************************************************************)
IsHex(c) ==
  IsDigit(c) \/ c \in {"a", "b", "c", "d", "e", "f", "A", "B", "C", "D", "E", "F"}

\* /^0x[a-fA-F0-9]{40}$/
IsCreatorAddress(a) ==
  /\ Len(a) = 42
  /\ a[1] = "0"
  /\ a[2] = "x"
  /\ \A i \in 3 .. 42 : IsHex(a[i])

\* A prompt of more than 10 characters
Prompts ==
  {
  <<"s", "h", "i", "r", "t", " ", "\"", "x", "\\", "y", "\"">>}

\* Bodies of POST /api/shirts/products: not JSON, or JSON with a prompt or
\* an image URL or neither, with or without a description, with a margin
\* inside or outside 0..10000 or none, and a creator address or a text that
\* is none
ListingBodies ==
  {NoListing}
    \cup [parses : {TRUE},
          prompt : {<<>>, <<"s", "h", "i", "r", "t">>} \cup Prompts,
          imageUrl : BOOLEAN,
          description : {<<>>, <<Backslash>>, <<"a", Quote>>},
          hasMargin : {TRUE},
          margin : {-1, 0, 500, 10000, 10001},
          creatorAddress : CreatorAddresses \cup {<<"0", "x", "a">>}]
    \cup [parses : {TRUE}, prompt : {<<>>}, imageUrl : {TRUE},
          description : {<<>>}, hasMargin : {FALSE}, margin : {0},
          creatorAddress : CreatorAddresses]

\* CreateProductBody.safeParse(body).success
CreateProductBody(b) ==
  /\ b.prompt # <<>> => (Len(b.prompt) >= 10 /\ Len(b.prompt) <= 4000)
  /\ Len(b.description) <= 5000
  /\ b.hasMargin => (b.margin >= 0 /\ b.margin <= 10000)
  /\ IsCreatorAddress(b.creatorAddress)
  /\ b.prompt # <<>> \/ b.imageUrl

\* validation.data: the margin defaults to 0
validatedBody(b) == [b EXCEPT !.margin = IF b.hasMargin THEN @ ELSE 0]

\* description = validatedBody.description || validatedBody.prompt, or
\* || "Custom shirt with uploaded image"
ListingDescription(b) ==
  IF b.description # <<>> THEN b.description
  ELSE IF b.prompt # <<>> THEN b.prompt
  ELSE
  <<"C", "u", "s", "t", "o", "m", " ", "s", "h", "i", "r", "t", " ", "w",
    "i", "t", "h", " ", "u", "p", "l", "o", "a", "d", "e", "d", " ", "i",
    "m", "a", "g", "e">>

basePriceInCents == 2500

\* JSON.stringify({description, margin, basePrice, creatorAddress})
descriptionWithMetadata(b) ==
  JSONStringify(
    <<[key |-> KeyDescription, value |-> StringValue(ListingDescription(b))],
      [key |-> KeyMargin, value |-> NumberValue(validatedBody(b).margin)],
      [key |-> KeyBasePrice, value |-> NumberValue(basePriceInCents)],
      [key |-> KeyCreatorAddress, value |-> StringValue(b.creatorAddress)]>>)

\* The number of COMFORT_COLORS_VARIANTS
ComfortColorsVariants == 15

\* The product printify.products.create is asked to make
productPayload(b) ==
  [found |-> TRUE,
   description |-> descriptionWithMetadata(b),
   variants |-> [i \in 1 .. ComfortColorsVariants |->
                  [price |-> basePriceInCents + validatedBody(b).margin,
                   is_enabled |-> TRUE]]]

\* A request to POST /api/shirts/products
InitListing ==
  /\ route = "products"
  /\ cfg = [price |-> <<>>, network |-> "none"]
  /\ header = NoHeader
  /\ options = <<>>
  /\ body = NoBody
  /\ faults = ThrownValues
  /\ parked = <<>>
  /\ listing \in ListingBodies
  /\ store = NoProduct
  /\ idempotencyKey = "null"
  /\ pc = "productBody"
  /\ atomic = NoAtomic
  /\ reqs = <<>>
  /\ selected = NoRequirement
  /\ payment = NoPayment
  /\ verification = NoVerification
  /\ bodyStatus = "unread"
  /\ stack = <<>>
  /\ signal = NoSignal
  /\ calls = NoCalls
  /\ hist = NoHist
  /\ vendor = [products |-> 0, orders |-> 0]
  /\ settlement = NoSettlement
  /\ result = NoResult
  /\ response = NoResponse
  /\ product = NoProduct
  /\ metadata = NoMetadata
  /\ splitPaymentTx = FALSE

\* What a handler of this section leaves alone
listingFrame ==
  <<cfg, options, idempotencyKey, faults, parked, listing, engineVars, atomic,
    reqs, selected, payment, verification, settlement, calls, hist,
    splitPaymentTx>>

\* req.json() and the zod schema
ProductValidateBody ==
  /\ route = "products"
  /\ pc = "productBody"
  /\ IF ~listing.parses
       THEN /\ response' = Respond(500, -1, "INTERNAL_ERROR")
            /\ pc' = "done"
       ELSE IF ~CreateProductBody(listing)
         THEN /\ response' = Respond(400, -1, "BAD_REQUEST")
              /\ pc' = "done"
         ELSE /\ response' = response
              /\ pc' = IF listing.prompt # <<>>
                         THEN "generateShirtDesign"
                         ELSE "createPrintifyProduct"
  /\ UNCHANGED <<listingFrame, route, header, body, bodyStatus, store,
                 product, metadata>>

\* await generateShirtDesign(prompt, "google") resolves
GenerateDesignReturns ==
  /\ pc = "generateShirtDesign"
  /\ pc' = "createPrintifyProduct"
  /\ UNCHANGED <<listingFrame, route, header, body, bodyStatus, store,
                 product, metadata, response>>

\* await generateShirtDesign(prompt, "google") rejects
GenerateDesignThrows ==
  /\ pc = "generateShirtDesign"
  /\ faults # {}
  /\ response' = Respond(500, -1, "INTERNAL_ERROR")
  /\ pc' = "done"
  /\ UNCHANGED <<listingFrame, route, header, body, bodyStatus, store,
                 product, metadata>>

\* await createPrintifyProduct(...) resolves: the provider keeps the product
CreateProductReturns ==
  /\ route = "products"
  /\ pc = "createPrintifyProduct"
  /\ store' = productPayload(listing)
  /\ response' = [Respond(200, -1, "none") EXCEPT
                    !.priceInCents =
                      basePriceInCents + validatedBody(listing).margin]
  /\ pc' = "done"
  /\ UNCHANGED <<listingFrame, route, header, body, bodyStatus, product,
                 metadata>>

\* await createPrintifyProduct(...) rejects: the upload or the creation
\* failed and nothing is kept, or publishing failed after the creation
CreateProductThrows ==
  /\ route = "products"
  /\ pc = "createPrintifyProduct"
  /\ faults # {}
  /\ store' \in {store, productPayload(listing)}
  /\ response' = Respond(500, -1, "INTERNAL_ERROR")
  /\ pc' = "done"
  /\ UNCHANGED <<listingFrame, route, header, body, bodyStatus, product,
                 metadata>>

\* A client asks GET /api/shirts/products/[productId]/order
StartPricing ==
  /\ route = "products"
  /\ pc = "done"
  /\ route' = "pricing"
  /\ pc' = "pricingProduct"
  /\ response' = NoResponse
  /\ UNCHANGED <<listingFrame, header, body, bodyStatus, store, product,
                 metadata>>

\* GET: await getPrintifyProduct(productId) resolves; the metadata and the
\* price are computed and answered
PricingReturns ==
  /\ pc = "pricingProduct"
  /\ product' = store
  /\ IF store.found
       THEN /\ metadata' = extractProductMetadata(store)
            /\ response' = [Respond(200, -1, "none") EXCEPT
                              !.priceInCents = totalPriceInCents(metadata')]
       ELSE /\ metadata' = metadata
            /\ response' = Respond(404, -1, "NOT_FOUND")
  /\ pc' = "done"
  /\ UNCHANGED <<listingFrame, route, header, body, bodyStatus, store>>

\* GET: await getPrintifyProduct(productId) rejects
PricingThrows ==
  /\ pc = "pricingProduct"
  /\ faults # {}
  /\ response' = Respond(500, -1, "INTERNAL_ERROR")
  /\ pc' = "done"
  /\ UNCHANGED <<listingFrame, route, header, body, bodyStatus, store,
                 product, metadata>>

\* A client asks POST /api/shirts/products/[productId]/order
StartOrder ==
  /\ route \in {"products", "pricing"}
  /\ pc = "done"
  /\ route' = "order"
  /\ header' \in OrderHeaders
  /\ body' \in Bodies
  /\ pc' = "orderBody"
  /\ bodyStatus' = "unread"
  /\ response' = NoResponse
  /\ product' = NoProduct
  /\ metadata' = NoMetadata
  /\ UNCHANGED <<listingFrame, store>>

NextListing ==
  \/ ProductValidateBody
  \/ GenerateDesignReturns
  \/ GenerateDesignThrows
  \/ CreateProductReturns
  \/ CreateProductThrows
  \/ StartPricing
  \/ PricingReturns
  \/ PricingThrows
  \/ StartOrder
  \/ NextOrder

SpecListing == InitListing /\ [][NextListing]_vars

(***************************************************************************)
(* Two requests in flight on one server.  A handler runs until it awaits;  *)
(* the event loop then runs the other request's handler.  The handlers     *)
(* share no variable: everything a handler reads or writes is local to its *)
(* call.                                                                   *)
(***************************************************************************)
\* The locals of the running handler
Context ==
  [route |-> route, cfg |-> cfg, header |-> header, options |-> options,
   body |-> body, idempotencyKey |-> idempotencyKey, pc |-> pc,
   atomic |-> atomic, reqs |-> reqs,
   selected |-> selected, payment |-> payment, verification |-> verification,
   bodyStatus |-> bodyStatus, stack |-> stack, signal |-> signal,
   calls |-> calls, hist |-> hist, vendor |-> vendor,
   settlement |-> settlement, result |-> result, response |-> response,
   product |-> product, metadata |-> metadata,
   splitPaymentTx |-> splitPaymentTx]

\* The running handler is at an await (or has answered)
AtAwait ==
  \/ pc \in {"verify", "body", "settle", "done"}
  \/ /\ pc = "sideEffect"
     /\ stack # <<>>
     /\ signal.kind = "none"
     /\ \/ Top.sleeping
        \/ /\ Top.step <= Len(Body(Top.w))
           /\ Callee(Body(Top.w)[Top.step]) = "none"

\* What the collaborators throw while two requests are in flight
ConcurrentFaults == {[isError |-> TRUE, text |-> {"429"}]}

\* Idempotency-Key header values: none, and two keys
IdempotencyKeys == {"null", "k1", "k2"}

\* Two requests carrying the same payment header and body arrive at the same
\* route, the second with the same Idempotency-Key, another one, or none;
\* one handler starts, the other waits for the event loop
InitConcurrent ==
  /\ route \in {"shirts", "from-image"}
  /\ cfg = RouteConfig(route)
  /\ body \in {b \in Bodies : b.country = "US" /\ Len(b.zip) = 5}
  /\ idempotencyKey = "k1"
  /\ faults = ConcurrentFaults
  /\ listing = NoListing
  /\ store = NoProduct
  /\ InitRequest
  /\ \E k \in IdempotencyKeys :
       parked = <<[Context EXCEPT !.idempotencyKey = k]>>

\* The running handler awaits and the event loop resumes the other request
Yield ==
  /\ parked # <<>>
  /\ AtAwait
  /\ LET next == Head(parked) IN
       /\ route' = next.route
       /\ cfg' = next.cfg
       /\ header' = next.header
       /\ options' = next.options
       /\ body' = next.body
       /\ idempotencyKey' = next.idempotencyKey
       /\ pc' = next.pc
       /\ atomic' = next.atomic
       /\ reqs' = next.reqs
       /\ selected' = next.selected
       /\ payment' = next.payment
       /\ verification' = next.verification
       /\ bodyStatus' = next.bodyStatus
       /\ stack' = next.stack
       /\ signal' = next.signal
       /\ calls' = next.calls
       /\ hist' = next.hist
       /\ vendor' = next.vendor
       /\ settlement' = next.settlement
       /\ result' = next.result
       /\ response' = next.response
       /\ product' = next.product
       /\ metadata' = next.metadata
       /\ splitPaymentTx' = next.splitPaymentTx
  /\ parked' = Append(Tail(parked), Context)
  /\ UNCHANGED <<faults, listing, store>>

NextConcurrent == Next \/ Yield

SpecConcurrent == InitConcurrent /\ [][NextConcurrent]_vars

(***************************************************************************)
(* A request to any of the three ordering endpoints                        *)
(***************************************************************************)
InitEndpoints == Init \/ InitOrder

NextEndpoints == Next \/ NextOrder

SpecEndpoints == InitEndpoints /\ [][NextEndpoints]_vars

(***************************************************************************)
(* Properties                                                              *)
(***************************************************************************)
SideEffectSucceeded == result.kind = "resolved"
SideEffectFailed == result.kind = "rejected"
SideEffectUntouched ==
  /\ stack = <<>>
  /\ result.kind = "pending"
  /\ vendor = [products |-> 0, orders |-> 0]
  /\ calls.submit = 0

\* C1: in every request to a coordinator route the settler is called 0 or 1
\* times, never unless the side effect succeeded, and once the request has
\* ended it was called exactly once iff the side effect succeeded, whatever
\* number of internal retries the side effect took.
C1_SettleIffSideEffectSucceeded ==
  /\ calls.settle \in {0, 1}
  /\ calls.settle = 1 => SideEffectSucceeded
  /\ pc = "done" => (calls.settle = 1 <=> SideEffectSucceeded)

C1_Witness ==
  /\ pc = "done"
  /\ calls.settle = 1
  /\ calls.sleep >= 2
  /\ response.status = 200

\* C2: the external calls are ordered verify -> side effect -> settle: the
\* side effect starts only after the verifier reported the payment valid, and
\* the settler is called only after the side effect returned success.
C2_VerifyActSettleOrder ==
  [][/\ (pc # "sideEffect" /\ pc' = "sideEffect")
          => (calls.verify = 1 /\ verification.returned
                /\ verification.isValid /\ calls.settle = 0)
     /\ (calls.settle' # calls.settle)
          => (SideEffectSucceeded /\ stack = <<>> /\ verification.isValid
                /\ calls.verify = 1)
     /\ (calls.verify' # calls.verify)
          => (SideEffectUntouched /\ calls.settle = 0)]_vars

C2_Witness ==
  /\ pc = "respond"
  /\ calls.verify = 1
  /\ calls.settle = 1
  /\ verification.isValid
  /\ vendor.orders >= 1

\* C3: a valid payment whose side effect fails (workflow success=false, or
\* order creation throws) is answered 500 with the settler never called and
\* the verifier called exactly once.
C3_SideEffectFailureNotSettled ==
  (verification.isValid /\ SideEffectFailed) =>
     /\ calls.settle = 0
     /\ calls.verify = 1
     /\ pc \in {"sideEffect", "done"}
     /\ pc = "done" => response.status = 500

C3_Witness ==
  /\ pc = "done"
  /\ verification.isValid
  /\ SideEffectFailed
  /\ response.status = 500
  /\ calls.submit >= 1

\* C4: when the side effect succeeded and settlement failed (the settler
\* reported failure or threw) the response is still 200 with the product and
\* order identifiers, and after the side effect returned nothing further is
\* done against the fulfillment provider.
C4_SettlementFailureStillHonored ==
  /\ []((pc = "done" /\ calls.settle = 1 /\ ~settlement.success) =>
          /\ response.status = 200
          /\ response.productId = result.productId
          /\ response.orderId = result.orderId
          /\ response.productId >= 1
          /\ response.orderId >= 1)
  /\ [][SideEffectSucceeded =>
          /\ vendor' = vendor
          /\ calls.submit' = calls.submit
          /\ stack' = <<>>]_vars

C4_Witness ==
  /\ pc = "done"
  /\ calls.settle = 1
  /\ settlement.error = "Settlement error"
  /\ response.status = 200
  /\ response.orderId >= 1

\* C5: a request without an X-PAYMENT header ends with a 402 response whose
\* accepts array has as many entries as there are payment requirements, and
\* neither verifier, settler nor side effect is called.
C5_MissingTokenPaymentRequired ==
  header.kind = "absent" =>
     /\ calls.verify = 0
     /\ calls.settle = 0
     /\ SideEffectUntouched
     /\ pc = "done" =>
          /\ response.status = 402
          /\ Len(reqs) = 1
          /\ response.accepts = Len(reqs)

C5_Witness ==
  /\ pc = "done"
  /\ header.kind = "absent"
  /\ response.status = 402
  /\ response.error = "X-PAYMENT header is required"

\* C6: the verifier is called only after the token decoded and a requirement
\* of the same scheme and network was found; a malformed token and a token
\* matching no requirement end with 402 and the accepts list, with verifier,
\* side effect and settler uncalled.
C6_VerifierOnlyAfterDecodeAndMatch ==
  /\ calls.verify > 0 =>
       /\ header.kind = "token"
       /\ payment = [scheme |-> header.scheme, network |-> header.network]
       /\ selected # NoRequirement
       /\ selected.scheme = payment.scheme
       /\ selected.network = payment.network
  /\ (\/ header.kind = "malformed"
      \/ (header.kind = "token" /\ header.network # cfg.network)) =>
       /\ calls.verify = 0
       /\ calls.settle = 0
       /\ SideEffectUntouched
       /\ pc = "done" =>
            /\ response.status = 402
            /\ response.accepts = 1

C6_Witness ==
  /\ pc = "done"
  /\ header.kind = "token"
  /\ header.network # cfg.network
  /\ response.status = 402
  /\ response.error = "Unable to find matching payment requirements"

\* C7: when the verifier reports the payment invalid the request ends with a
\* 402 response carrying the invalidity reason, and the payer when the
\* verifier supplied one; side effect and settler are never called.
C7_InvalidPaymentRejected ==
  (verification.returned /\ ~verification.isValid) =>
     /\ pc = "done"
     /\ response.status = 402
     /\ response.accepts = 1
     /\ verification.invalidReason => response.error = "invalidReason"
     /\ response.payer = verification.payer
     /\ SideEffectUntouched
     /\ calls.settle = 0

C7_Witness ==
  /\ pc = "done"
  /\ verification.returned
  /\ ~verification.isValid
  /\ verification.payer
  /\ verification.invalidReason
  /\ response.payer

\* C8: a pricing failure (malformed price or unsupported network) ends the
\* request with status 500 before any payment requirement is offered: no
\* accepts list, the payment header is not inspected, and verifier, side
\* effect and settler are not called.
C8_MalformedPrices == {<<"f", "r", "e", "e">>, <<"$", "1", ".", "2", ".", "3">>}
C8_UnsupportedNetworks == {"solana", "mainnet"}
C8_PricingFailureIsConfigurationError ==
  (cfg.price \in C8_MalformedPrices \/ cfg.network \in C8_UnsupportedNetworks) =>
     /\ ~hist.headerInspected
     /\ reqs = <<>>
     /\ calls.verify = 0
     /\ calls.settle = 0
     /\ SideEffectUntouched
     /\ pc \in {"pricing", "requirements", "done"}
     /\ pc = "done" => (response.status = 500 /\ response.accepts = -1)

C8_Witness ==
  /\ pc = "done"
  /\ cfg.network = "solana"
  /\ cfg.price = Price20
  /\ header.kind = "token"
  /\ response.status = 500
  /\ response.error = "Unsupported network"

FnConfig == MergeOptions(options)
FnCalls == Len(hist.outcomes)
FnRetryableFailure(i) ==
  /\ ~hist.outcomes[i].ok
  /\ retryOn(FnConfig.retryOn, hist.outcomes[i].text)
FnNonRetryableFailure(i) ==
  /\ ~hist.outcomes[i].ok
  /\ ~retryOn(FnConfig.retryOn, hist.outcomes[i].text)

\* C9: with maxAttempts = n >= 1, an operation that fails on every call with
\* a retryable error is called exactly n times, and withRetry then rejects
\* with the failure of the n-th call.
C9_ExhaustionAfterMaxAttempts ==
  (route = "withRetry" /\ \A i \in 1 .. FnCalls : FnRetryableFailure(i)) =>
     /\ FnCalls <= FnConfig.maxAttempts
     /\ result.kind # "resolved"
     /\ pc = "done" =>
          /\ FnCalls = FnConfig.maxAttempts
          /\ result.kind = "rejected"
          /\ result.origin = FnConfig.maxAttempts
          /\ result.text = hist.outcomes[FnCalls].text

C9_Witness ==
  /\ route = "withRetry"
  /\ pc = "done"
  /\ FnConfig.maxAttempts = MaxAttemptsBound
  /\ FnCalls = MaxAttemptsBound
  /\ \A i \in 1 .. FnCalls : FnRetryableFailure(i)
  /\ hist.outcomes[1].text # hist.outcomes[FnCalls].text
  /\ result.kind = "rejected"

\* C10: when the operation fails with an error the retry predicate rejects,
\* no further call of the operation is made and no backoff suspension
\* follows; failing so on its first call it is called exactly once,
\* whatever maxAttempts is, and withRetry rejects with that error.
C10_NonRetryableFailsAtOnce ==
  route = "withRetry" =>
    \A i \in 1 .. FnCalls :
       FnNonRetryableFailure(i) =>
          /\ FnCalls = i
          /\ calls.sleep = i - 1
          /\ \A k \in 1 .. Len(stack) : ~stack[k].sleeping
          /\ result.kind # "resolved"
          /\ pc = "done" =>
               /\ result.kind = "rejected"
               /\ result.origin = i
               /\ result.text = hist.outcomes[i].text

C10_Witness ==
  /\ route = "withRetry"
  /\ pc = "done"
  /\ FnConfig.maxAttempts = MaxAttemptsBound
  /\ FnCalls = 1
  /\ FnNonRetryableFailure(1)
  /\ calls.sleep = 0
  /\ result.kind = "rejected"

\* C11: withRetry resolves with the result of the first call of the operation
\* that does not fail, and the operation is never called again after that
\* success; withRetry rejects only with the failure of the last call, and
\* only when no call succeeded and either maxAttempts calls were made or the
\* predicate rejected retrying the last failure.
C11_FirstSuccessOrLastFailure ==
  route = "withRetry" =>
    /\ \A i \in 1 .. FnCalls :
         hist.outcomes[i].ok =>
            /\ i = FnCalls
            /\ result.kind # "rejected"
            /\ \A k \in 1 .. Len(stack) : ~stack[k].sleeping
            /\ pc = "done" => (result.kind = "resolved" /\ result.origin = i)
    /\ result.kind = "resolved" =>
         /\ FnCalls >= 1
         /\ hist.outcomes[FnCalls].ok
         /\ result.origin = FnCalls
    /\ result.kind = "rejected" =>
         /\ FnCalls >= 1
         /\ \A i \in 1 .. FnCalls : ~hist.outcomes[i].ok
         /\ result.origin = FnCalls
         /\ result.text = hist.outcomes[FnCalls].text
         /\ \/ FnCalls = FnConfig.maxAttempts
            \/ FnNonRetryableFailure(FnCalls)

C11_Witness ==
  /\ route = "withRetry"
  /\ pc = "done"
  /\ FnConfig.maxAttempts = MaxAttemptsBound
  /\ FnCalls = 2
  /\ ~hist.outcomes[1].ok
  /\ hist.outcomes[2].ok
  /\ result.kind = "resolved"
  /\ result.origin = 2

\* min(initialDelay * backoffMultiplier^(k-2), maxDelay), the base delay
\* before attempt k
BaseDelayBefore(k) ==
  FracMin(<<FnConfig.initialDelay * Pow(FnConfig.backoffMultiplier[1], k - 2),
            Pow(FnConfig.backoffMultiplier[2], k - 2)>>,
          <<FnConfig.maxDelay, 1>>)

\* C12: with jitter disabled, withRetry suspends exactly once before each
\* attempt k >= 2, for min(initialDelay * backoffMultiplier^(k-2), maxDelay),
\* and suspends neither before attempt 1 nor after the final attempt.
C12_BackoffScheduleWithoutJitter ==
  (route = "withRetry" /\ ~FnConfig.jitter) =>
    /\ stack # <<>> =>
         /\ calls.sleep = stack[1].attempt - 1
                            + (IF stack[1].sleeping THEN 1 ELSE 0)
         /\ stack[1].sleeping =>
              /\ stack[1].attempt < FnConfig.maxAttempts
              /\ FnCalls = stack[1].attempt
              /\ FracEq(stack[1].delay, BaseDelayBefore(stack[1].attempt + 1))
         /\ ~stack[1].sleeping => FnCalls \in {calls.sleep, calls.sleep + 1}
    /\ stack = <<>> =>
         /\ FnCalls >= 1
         /\ calls.sleep = FnCalls - 1

C12_Witness ==
  /\ route = "withRetry"
  /\ ~FnConfig.jitter
  /\ stack # <<>>
  /\ stack[1].sleeping
  /\ stack[1].attempt = 2
  /\ calls.sleep = 2
  /\ FnConfig.initialDelay * FnConfig.backoffMultiplier[1]
       > FnConfig.maxDelay * FnConfig.backoffMultiplier[2]
  /\ stack[1].delay = <<FnConfig.maxDelay, 1>>

C14_RetryableMarkers == {"timeout", "network", "ECONNRESET", "ENOTFOUND",
                         "500", "502", "503", "504"}
C14_UsesDefaultPredicate == route = "withRetry" /\ "retryOn" \notin DOMAIN options
\* the operation's i-th call failed with attempts left and withRetry settled
C14_Classified(i) ==
  /\ pc = "done"
  /\ i <= FnCalls
  /\ ~hist.outcomes[i].ok
  /\ i < FnConfig.maxAttempts

\* C14 (as stated): under the default predicate, failures carrying a timeout,
\* network, connection-reset/DNS or 5xx marker are retried, HTTP 429 is
\* retried, and other 4xx failures are not.
C14_RateLimitRetriedByDefault ==
  C14_UsesDefaultPredicate =>
    \A i \in 1 .. MaxAttemptsBound :
       C14_Classified(i) =>
          IF hist.outcomes[i].text \cap (C14_RetryableMarkers \cup {"429"}) # {}
            THEN FnCalls > i
            ELSE FnCalls = i

\* C14 (amended): the default predicate, used by every withRetry call whose
\* policy supplies no predicate (the API_CALL and WORKFLOW presets included),
\* retries failures whose message carries a timeout, network,
\* connection-reset/DNS or 500/502/503/504 marker, and retries nothing
\* else: a 4xx failure without such a marker is not retried, HTTP 429
\* included.
C14_DefaultPredicateClassification ==
  /\ "retryOn" \notin DOMAIN RETRY_PRESETS.API_CALL
  /\ "retryOn" \notin DOMAIN RETRY_PRESETS.WORKFLOW
  /\ C14_UsesDefaultPredicate =>
       \A i \in 1 .. MaxAttemptsBound :
          C14_Classified(i) =>
             IF hist.outcomes[i].text \cap C14_RetryableMarkers # {}
               THEN FnCalls > i
               ELSE FnCalls = i /\ result.kind = "rejected"

C14_Witness ==
  /\ options = RETRY_PRESETS.API_CALL
  /\ pc = "done"
  /\ FnCalls = 1
  /\ hist.outcomes[1].text = {"429"}
  /\ result.kind = "rejected"
  /\ calls.sleep = 0

\* C15: with maxAttempts = 1, and likewise with a predicate that always
\* returns false, withRetry calls the operation exactly once and never
\* suspends; when that call fails its failure is propagated at once.
C15_SingleAttemptPolicies ==
  (route = "withRetry"
     /\ (FnConfig.maxAttempts = 1 \/ FnConfig.retryOn = "never")) =>
    /\ FnCalls <= 1
    /\ calls.sleep = 0
    /\ \A k \in 1 .. Len(stack) : ~stack[k].sleeping /\ stack[k].attempt = 1
    /\ pc = "done" =>
         /\ FnCalls = 1
         /\ result.origin = 1
         /\ IF hist.outcomes[1].ok THEN result.kind = "resolved"
            ELSE /\ result.kind = "rejected"
                 /\ result.text = hist.outcomes[1].text

C15_Witness ==
  /\ route = "withRetry"
  /\ pc = "done"
  /\ FnConfig.maxAttempts = 1
  /\ FnCalls = 1
  /\ FnRetryableFailure(1)
  /\ calls.sleep = 0
  /\ result.kind = "rejected"
  /\ result.text = hist.outcomes[1].text

\* the atomic amount of a price of dollars.cents with the asset's decimals
C19_Atomic(dollars, cents, decimals) ==
  dollars * Pow(10, decimals) + cents * Pow(10, decimals - 2)
C19_Expected ==
  IF cfg.price = Price20 THEN C19_Atomic(20, 0, 6) ELSE C19_Atomic(0, 1, 6)

C16_OrderRouteSettlesOnce ==
  route = "order" =>
    /\ calls.settle <= 1
    /\ calls.settle = 1 => result.kind = "resolved"
    /\ result.kind = "rejected" => calls.settle = 0
    /\ (pc = "done" /\ result.kind = "resolved") => calls.settle = 1

\* C17: in the order route the value split is attempted only after
\* settlement has succeeded, and a failed split unwinds nothing: the
\* response is still 200 with the order id and the order stands.
C17_SplitOnlyAfterSettlement ==
  route = "order" =>
    /\ calls.split > 0 =>
         /\ calls.settle = 1
         /\ settlement.success
    /\ (pc = "done" /\ calls.split > 0 /\ ~splitPaymentTx) =>
         /\ response.status = 200
         /\ response.orderId = result.orderId
         /\ result.orderId = 1
         /\ vendor.orders = 1

C18_SchemaFailure == body.parses /\ ~body.schemaOk
C18_RuleBroken ==
  /\ body.parses
  /\ body.schemaOk
  /\ body.country = "US"
  /\ body.zip \in {<<"1", "2", "3", "4">>, <<"1", "2", "3", "4", "5", "6">>,
                   <<"K", "1", "A", "0", "B", "1">>}
C18_RuleKept ==
  /\ body.parses
  /\ body.schemaOk
  /\ \/ body.country # "US"
     \/ body.zip \in {<<"1", "2", "3", "4", "5">>,
                      <<"1", "2", "3", "4", "5", "-", "6", "7", "8", "9">>}

\* C18 (as stated): on every endpoint, with or without a payment token, a
\* body failing schema validation is answered 400 and a well-formed body
\* with a US ZIP that is neither 5 digits nor 5+4 is answered 422.
C18_ValidationStatusOnEveryRequest ==
  pc = "done" =>
    /\ C18_SchemaFailure => response.status = 400
    /\ C18_RuleBroken => response.status = 422

\* C18 (amended): a body failing schema validation is answered 400 and a
\* well-formed body breaking the US ZIP rule 422; on the order route for
\* every request, with or without a payment token, and on POST /api/shirts
\* and POST /api/shirts/from-image for the requests whose payment was
\* verified as valid: there a request without a valid payment is answered
\* 402 or 500 before its body is read.  A body that keeps the rule is never
\* answered 400 or 422.
C18_ValidationStatus ==
  pc = "done" =>
    /\ (route = "order" \/ verification.isValid) =>
         /\ C18_SchemaFailure => response.status = 400
         /\ C18_RuleBroken => response.status = 422
    /\ (route \in {"shirts", "from-image"} /\ ~verification.isValid) =>
         /\ response.status \in {402, 500}
         /\ bodyStatus = "unread"
    /\ C18_RuleKept => response.status \notin {400, 422}

C18_Witness ==
  /\ pc = "done"
  /\ route = "order"
  /\ header = NoHeader
  /\ body.country = "US"
  /\ body.zip = <<"1", "2", "3", "4", "5", "6">>
  /\ C18_RuleBroken
  /\ response.status = 422
  /\ calls.verify = 0

\* The requests in flight: the running one and the suspended ones
C20_Requests == {Context} \cup {parked[i] : i \in 1 .. Len(parked)}

\* C20: the coordinator keeps no record of settled payments.  Of two
\* concurrent requests presenting the same payment, each one whose payment
\* the verifier accepted and whose side effect succeeded calls the settler
\* once, whatever the other has done: a request is answered 200 only after
\* its own settler call, and the settler can be called twice for the one
\* payment.
C20_NoSettledPaymentRecord ==
  \A q \in C20_Requests :
     /\ q.calls.settle <= 1
     /\ q.calls.settle = 1 =>
          (q.verification.isValid /\ q.result.kind = "resolved")
     /\ (q.pc \in {"respond", "done"} /\ q.result.kind = "resolved") =>
          q.calls.settle = 1
     /\ q.response.status = 200 => q.calls.settle = 1

C20_Witness ==
  /\ Len(parked) = 1
  /\ pc = "done"
  /\ parked[1].pc = "done"
  /\ header.kind = "token"
  /\ parked[1].header = header
  /\ parked[1].payment = payment
  /\ verification.isValid
  /\ parked[1].verification.isValid
  /\ result.kind = "resolved"
  /\ parked[1].result.kind = "resolved"
  /\ calls.settle = 1
  /\ parked[1].calls.settle = 1
  /\ response.status = 200
  /\ parked[1].response.status = 200

\* the side effect of the request was started
C21_SideEffectRan == route \in {"shirts", "from-image"} /\ bodyStatus = "ok"
                     /\ pc \notin {"body", "start"}

\* C21: a retryable failure of a vendor call is never surfaced by itself: no
\* retry wrapper throws a retryable error while it has attempts left; when
\* no wrapper exhausted its attempts or met a non-retryable failure the
\* request ends with status 200 after a settlement attempt, and a 500 from
\* the side-effect phase occurs only when some wrapper did.
C21_RetryableFailureNotSurfaced ==
  /\ "surfaced" \notin hist.gaveUp
  /\ C21_SideEffectRan =>
       /\ hist.gaveUp = {} => result.kind # "rejected"
       /\ (pc = "done" /\ hist.gaveUp = {}) =>
            /\ response.status = 200
            /\ calls.settle = 1
       /\ (pc = "done" /\ response.status = 500) =>
            /\ hist.gaveUp \cap {"exhausted", "nonRetryable"} # {}
            /\ calls.settle = 0

C21_Witness ==
  /\ C21_SideEffectRan
  /\ route = "shirts"
  /\ pc = "done"
  /\ hist.gaveUp = {}
  /\ calls.sleep >= 3
  /\ calls.submit = 3
  /\ response.status = 200
  /\ calls.settle = 1

C22_ValidationMarkers == {"400", "401", "403", "404", "422"}

\* C22: under the PRINTIFY_OPERATION predicate a failure whose message
\* carries 400, 401, 403, 404 or 422 is never retried, whatever else the
\* message contains, and a failure whose message carries 429 is retried.
C22_ValidationNeverRetried ==
  (route = "withRetry" /\ FnConfig.retryOn = "PRINTIFY_OPERATION") =>
    \A i \in 1 .. MaxAttemptsBound :
       (pc = "done" /\ i <= FnCalls /\ ~hist.outcomes[i].ok
          /\ i < FnConfig.maxAttempts) =>
         /\ hist.outcomes[i].text \cap C22_ValidationMarkers # {} =>
              FnCalls = i
         /\ (hist.outcomes[i].text \cap C22_ValidationMarkers = {}
               /\ "429" \in hist.outcomes[i].text) => FnCalls > i

\* The status POST /api/shirts answers request q with, from its payment
\* header, its body and what verifier and side effect did for it
C23_ExpectedStatus(q) ==
  IF q.header.kind # "token" THEN 402
  ELSE IF q.header.network # "base" THEN 402
  ELSE IF ~q.verification.returned THEN 500
  ELSE IF ~q.verification.isValid THEN 402
  ELSE IF ~q.body.parses THEN 500
  ELSE IF ~q.body.schemaOk THEN 400
  ELSE IF q.body.country = "US" /\ Len(q.body.zip) \notin {5, 10} THEN 422
  ELSE IF q.result.kind = "rejected" THEN 500
  ELSE 200

\* C23: the outcome of POST /api/shirts does not depend on the
\* Idempotency-Key header.  Of two requests in flight that differ only in
\* that header, or carry the same key, each is answered with the status its
\* own payment header, body, verifier answer and side effect determine,
\* after its own verifier call, its own side effect and its own settler
\* call: nothing is deduplicated.
C23_OutcomeIgnoresIdempotencyKey ==
  \A q \in C20_Requests :
     (q.route = "shirts" /\ q.pc = "done") =>
        /\ q.response.status = C23_ExpectedStatus(q)
        /\ q.calls.verify
             = (IF q.header.kind = "token" /\ q.header.network = "base"
                  THEN 1 ELSE 0)
        /\ (q.result.kind # "pending")
             <=> (q.verification.isValid /\ q.body.parses /\ q.body.schemaOk)
        /\ q.calls.settle = (IF q.result.kind = "resolved" THEN 1 ELSE 0)
        /\ q.vendor.orders = q.calls.settle

C23_Witness ==
  /\ Len(parked) = 1
  /\ route = "shirts"
  /\ pc = "done"
  /\ parked[1].pc = "done"
  /\ idempotencyKey = "k1"
  /\ parked[1].idempotencyKey = "k1"
  /\ parked[1].header = header
  /\ parked[1].body = body
  /\ response.status = 200
  /\ parked[1].response.status = 200
  /\ calls.verify = 1
  /\ parked[1].calls.verify = 1
  /\ calls.settle = 1
  /\ parked[1].calls.settle = 1
  /\ vendor.orders = 1
  /\ parked[1].vendor.orders = 1

\* the order route has started to create the order
C24_OrderAttempted ==
  \/ pc \in {"createPrintifyOrder", "split", "respondOrder"}
  \/ stack # <<>>
  \/ calls.submit > 0
  \/ result.kind # "pending"

\* C24: in the order route the order is created only after
\* verifyX402Payment returned valid for the total of base price and margin;
\* every verification failure (no X-Payment-Token header, a non-OK answer of
\* the facilitator, an answer marked invalid, an exception of the call) is
\* answered 402 stating that total, with no order and no value split
\* attempted.
C24_OrderOnlyAfterValidPayment ==
  route = "order" =>
    /\ C24_OrderAttempted =>
         /\ verification.isValid
         /\ header.kind \notin {"absent", "empty"}
         /\ calls.verify = 1
         /\ hist.facilitator.answer = "valid"
         /\ hist.facilitator.expectedAmount = 2000 + metadata.margin
    /\ (verification.returned
          /\ \/ header.kind \in {"absent", "empty"}
             \/ hist.facilitator.answer \in {"notOk", "invalid", "throws"}) =>
         /\ pc = "done"
         /\ response.status = 402
         /\ response.priceInCents = 2000 + metadata.margin
         /\ ~C24_OrderAttempted
         /\ calls.split = 0
         /\ vendor.orders = 0

C24_Witness ==
  /\ route = "order"
  /\ pc = "done"
  /\ header.kind = "token"
  /\ hist.facilitator.answer = "throws"
  /\ Property(JSONParse(product.description).value, KeyMargin)
       = NumberValue(500)
  /\ response.status = 402
  /\ response.priceInCents = 2500
  /\ calls.submit = 0

\* C25: in the order route the value split is attempted at most once per
\* request and never retried, and only when order creation returned an
\* order, the listing has a creator address and its margin is greater than
\* 0; it is never attempted on a request that ended 400, 402, 404, 422 or
\* 500.
C25_SplitAtMostOnce ==
  route = "order" =>
    /\ calls.split <= 1
    /\ calls.split = 1 =>
         /\ result.kind = "resolved"
         /\ vendor.orders = 1
         /\ Truthy(metadata.creatorAddress)
         /\ metadata.margin > 0
         /\ metadata = extractProductMetadata(product)
         /\ pc \in {"respondOrder", "done"}
    /\ splitPaymentTx => calls.split = 1
    /\ (pc = "done" /\ response.status \in {400, 402, 404, 422, 500}) =>
         calls.split = 0
    /\ (pc = "done" /\ calls.split = 1) => response.status = 200

C25_Witness ==
  /\ route = "order"
  /\ pc = "done"
  /\ calls.split = 1
  /\ ~splitPaymentTx
  /\ calls.submit = 2
  /\ response.status = 200
  /\ response.orderId = 1

\* C26: listing metadata round-trips through the product description: for a
\* listing created by POST /api/shirts/products with margin m in 0..10000
\* and creator address a, extractProductMetadata on the stored product
\* returns margin m and creator a, the GET and the POST of the order route
\* both compute the total 2000 + m, and the split, when one is made, goes
\* to a with amount m.
C26_Listed == validatedBody(listing)

C26_ListingRoundTrips ==
  store.found =>
    /\ C26_Listed.margin \in 0 .. 10000
    /\ extractProductMetadata(store)
         = [margin |-> C26_Listed.margin,
            creatorAddress |-> StringValue(C26_Listed.creatorAddress)]
    /\ (route = "pricing" /\ pc = "done" /\ response.status = 200) =>
         response.priceInCents = 2000 + C26_Listed.margin
    /\ (route = "order" /\ pc = "done" /\ response.status \in {200, 402}) =>
         response.priceInCents = 2000 + C26_Listed.margin
    /\ (route = "order" /\ calls.split = 1) =>
         hist.split
           = [creatorAddress |-> StringValue(C26_Listed.creatorAddress),
              marginInCents |-> C26_Listed.margin]
    /\ (route = "order" /\ pc = "done" /\ response.status = 200
          /\ C26_Listed.margin > 0) => calls.split = 1

C26_Witness ==
  /\ route = "order"
  /\ pc = "done"
  /\ response.status = 200
  /\ response.priceInCents = 12000
  /\ listing.description = <<Backslash>>
  /\ listing.prompt \in Prompts
  /\ calls.split = 1
  /\ splitPaymentTx
  /\ hist.split.marginInCents = 10000

C27_Result == executeCreateShirtWorkflow(result)

\* C27: executeCreateShirtWorkflow never rejects: whatever the image
\* generation and the fulfillment calls do it resolves with a result, with
\* success = true and the product and order identifiers only when an
\* attempt completed both steps, and with success = false and the error
\* message when retries were exhausted or a non-retryable failure occurred;
\* the route therefore answers 200 or WORKFLOW_FAILED, never from its catch.
C27_WorkflowNeverRejects ==
  (route = "shirts" /\ stack = <<>> /\ result.kind # "pending") =>
    /\ ~C27_Result.rejects
    /\ C27_Result.success =>
         /\ SideEffectSucceeded
         /\ C27_Result.productId = vendor.products
         /\ C27_Result.orderId = vendor.orders
         /\ vendor.products >= 1
         /\ vendor.orders >= 1
    /\ ~C27_Result.success =>
         /\ SideEffectFailed
         /\ C27_Result.error = result.text
         /\ hist.gaveUp \cap {"exhausted", "nonRetryable"} # {}
    /\ pc = "done" =>
         \/ response.status = 200 /\ C27_Result.success
         \/ /\ response.status = 500
            /\ response.error = "WORKFLOW_FAILED"
            /\ ~C27_Result.success

C27_Witness ==
  /\ route = "shirts"
  /\ pc = "done"
  /\ ~C27_Result.success
  /\ C27_Result.error = {"503"}
  /\ hist.gaveUp = {"exhausted"}
  /\ vendor.products = 4
  /\ calls.submit = 16
  /\ response.error = "WORKFLOW_FAILED"

\* C28: withRetry terminates when each call of the operation terminates:
\* for every policy with maxAttempts >= 1 and every sequence of outcomes of
\* the operation it settles, after at most maxAttempts calls of the
\* operation and at most maxAttempts - 1 backoff suspensions.
C28_WithRetryTerminates ==
  /\ [](/\ FnConfig.maxAttempts >= 1
        /\ FnCalls <= FnConfig.maxAttempts
        /\ calls.sleep <= FnConfig.maxAttempts - 1
        /\ calls.sleep <= FnCalls)
  /\ <>(pc = "done" /\ stack = <<>> /\ result.kind # "pending")

C28_Witness ==
  /\ route = "withRetry"
  /\ pc = "done"
  /\ FnConfig.maxAttempts = MaxAttemptsBound
  /\ FnCalls = MaxAttemptsBound
  /\ calls.sleep = MaxAttemptsBound - 1
  /\ result.kind = "resolved"

\* C29: within one request, once an order submission has returned a valid
\* order no further order submission is made: no retry wrapper at any
\* nesting level re-runs its operation or sleeps after that point, so at
\* most one order submission per request returns an order.
C29_NoSubmissionAfterOrder ==
  /\ [](vendor.orders <= 1)
  /\ [][vendor.orders = 1 =>
          /\ vendor' = vendor
          /\ calls'.submit = calls.submit
          /\ calls'.sleep = calls.sleep
          /\ signal'.kind = "none"
          /\ Len(stack') <= Len(stack)
          /\ \A i \in 1 .. Len(stack') :
               /\ stack'[i].w = stack[i].w
               /\ stack'[i].attempt = stack[i].attempt
               /\ ~stack'[i].sleeping]_vars

C29_Witness ==
  /\ route = "shirts"
  /\ vendor.orders = 1
  /\ Len(stack) = 3
  /\ Top.w = "order"
  /\ Top.attempt = 4
  /\ stack[1].attempt = 2
  /\ stack[2].attempt = 2
  /\ calls.submit = 16

\* C30: the nested retry wrappers bound the vendor calls of one request to
\* POST /api/shirts: the workflow body runs at most 2 times, the body of
\* createDirectPrintifyOrder at most 2 times per workflow attempt and the
\* order submission at most 4 times per body, so that at most 16 order
\* submissions are made, and the request always reaches a terminal response.
C30_BoundedVendorCalls ==
  /\ [](/\ calls.submit <= 16
        /\ \A i \in 1 .. Len(stack) :
             /\ stack[i].w = "workflow" => stack[i].attempt <= 2
             /\ stack[i].w = "direct" => stack[i].attempt <= 2
             /\ stack[i].w = "order" => stack[i].attempt <= 4
        /\ Len(stack) = 3 =>
             calls.submit <= 8 * (stack[1].attempt - 1)
                               + 4 * (stack[2].attempt - 1)
                               + stack[3].attempt)
  /\ <>(pc = "done" /\ stack = <<>>
          /\ response.status \in {200, 400, 402, 422, 500})

C30_Witness ==
  /\ route = "shirts"
  /\ pc = "done"
  /\ calls.submit = 16
  /\ calls.sleep = 15
  /\ vendor.products = 4
  /\ vendor.orders = 0
  /\ response.status = 500

====
